---- MODULE Spec2Model ----
(***************************************************************************)
(* Model of the Loki MCP tool handlers (internal/handlers/loki_protocol.go) *)
(* and of the helpers they call.  One handler invocation is a sequential   *)
(* pipeline: decode arguments, resolve configuration, read the clock for   *)
(* the default range, resolve start and end, pick limit and format, build  *)
(* the URL, call the backend, format, wrap.  The wall clock is part of the *)
(* environment and may advance between any two steps.                      *)
(* The command-line client (cmd/client/main.go) is modelled by its         *)
(* configuration loader and its main function, the server                  *)
(* (cmd/server/main.go) by its main function and its two goroutines.       *)
(*                                                                         *)
(* Strings that the code only compares with "" or passes on are TLA+       *)
(* strings.  Time expressions are parsed, so they are sequences of         *)
(* one-character strings.  A Go nil is the empty sequence; a non-nil       *)
(* error is the non-empty sequence of the parts of its message.            *)
(***************************************************************************)
EXTENDS Integers, Sequences, FiniteSets, TLC

VARIABLES env, clock, inv, client, server

vars == <<env, clock, inv, client, server>>

----------------------------------------------------------------------------
(* Bounds of the model *)

\* number of clock ticks the environment may take during a run
MaxTicks == 3

\* clock ticks per second (time.Now() is finer than the second Unix() keeps)
TicksPerSec == 2

\* value of the clock, in ticks, at which a run may start
ClockBase == 200000

\* the float64 limit argument is held in units of 1/LimitScale
LimitScale == 2

\* invocation slots
Invs == {1, 2}

\* seconds a client is followed while it waits for an answer
MaxWaitSecs == 8

\* requests on /mcp a server is followed through
MaxRequests == 1

----------------------------------------------------------------------------
(* Program constants *)

EnvLokiURL == "LOKI_URL"
EnvLokiUsername == "LOKI_USERNAME"
EnvLokiPassword == "LOKI_PASSWORD"
EnvLokiToken == "LOKI_TOKEN"
EnvLokiOrgID == "LOKI_ORG_ID"
DefaultLokiURL == "http://localhost:3100"

EnvKeys == {EnvLokiURL, EnvLokiUsername, EnvLokiPassword, EnvLokiToken, EnvLokiOrgID}

\* limit := 100
DefaultLimit == 100

\* format := "raw"
DefaultFormat == "raw"

\* time.Hour, in seconds
HourSecs == 3600

LokiQuery == "loki_query"
LokiLabelNames == "loki_label_names"
LokiLabelValues == "loki_label_values"
Handlers == {LokiQuery, LokiLabelNames, LokiLabelValues}

----------------------------------------------------------------------------
(* Values *)

Nil == <<>>
Some(x) == <<x>>

\* a string as the sequence of its characters
Now == <<"n", "o", "w">>
Minus5m == <<"-", "5", "m">>
Minus2h == <<"-", "2", "h">>
Minus30s == <<"-", "3", "0", "s">>
Minus1d == <<"-", "1", "d">>
Plain5m == <<"5", "m">>
Tomorrow == <<"t", "o", "m", "o", "r", "r", "o", "w">>
EmptyStr == <<>>

\* 1970-01-02T02:00:00Z, 93600 seconds after the epoch
Jan2At2 == <<"1", "9", "7", "0", "-", "0", "1", "-", "0", "2", "T",
             "0", "2", ":", "0", "0", ":", "0", "0", "Z">>

Digits == {"0", "1", "2", "3", "4", "5", "6", "7", "8", "9"}

DigitVal(c) ==
    CASE c = "0" -> 0 [] c = "1" -> 1 [] c = "2" -> 2 [] c = "3" -> 3
      [] c = "4" -> 4 [] c = "5" -> 5 [] c = "6" -> 6 [] c = "7" -> 7
      [] c = "8" -> 8 [] c = "9" -> 9

RECURSIVE ParseInt(_)
ParseInt(s) ==
    IF s = <<>> THEN 0
    ELSE ParseInt(SubSeq(s, 1, Len(s) - 1)) * 10 + DigitVal(s[Len(s)])

Range(s) == {s[k] : k \in 1..Len(s)}

----------------------------------------------------------------------------
(* time.Time.Unix(): whole seconds, rounding towards minus infinity *)
Unix(t) == t \div TicksPerSec

(* Time Expression Resolver (parseTime).  The handlers call it with the    *)
(* expression alone, so the reference time is the clock at the call.       *)
UnitSecs(u) ==
    CASE u = "s" -> 1 [] u = "m" -> 60 [] u = "h" -> 3600 [] u = "d" -> 86400

IsRelative(s) ==
    /\ Len(s) >= 3
    /\ s[1] = "-"
    /\ s[Len(s)] \in {"s", "m", "h", "d"}
    /\ \A k \in 2..(Len(s) - 1) : s[k] \in Digits

\* an absolute timestamp yyyy-mm-ddThh:mm:ss, with Z or with no zone (UTC)
IsAbsolute(s) ==
    /\ Len(s) \in {19, 20}
    /\ \A k \in {1, 2, 3, 4, 6, 7, 9, 10, 12, 13, 15, 16, 18, 19} : s[k] \in Digits
    /\ s[5] = "-" /\ s[8] = "-" /\ s[11] = "T" /\ s[14] = ":" /\ s[17] = ":"
    /\ Len(s) = 20 => s[20] = "Z"
    /\ ParseInt(SubSeq(s, 6, 7)) \in 1..12
    /\ ParseInt(SubSeq(s, 9, 10)) \in 1..31
    /\ ParseInt(SubSeq(s, 12, 13)) \in 0..23
    /\ ParseInt(SubSeq(s, 15, 16)) \in 0..59
    /\ ParseInt(SubSeq(s, 18, 19)) \in 0..59

\* days from 1970-01-01 to the civil date y-m-d
DaysFromCivil(y, m, d) ==
    LET yy == IF m <= 2 THEN y - 1 ELSE y
        era == yy \div 400
        yoe == yy - era * 400
        doy == (153 * (IF m > 2 THEN m - 3 ELSE m + 9) + 2) \div 5 + d - 1
        doe == yoe * 365 + yoe \div 4 - yoe \div 100 + doy
    IN  era * 146097 + doe - 719468

AbsoluteSecs(s) ==
    DaysFromCivil(ParseInt(SubSeq(s, 1, 4)), ParseInt(SubSeq(s, 6, 7)),
                  ParseInt(SubSeq(s, 9, 10))) * 86400
    + ParseInt(SubSeq(s, 12, 13)) * 3600
    + ParseInt(SubSeq(s, 15, 16)) * 60
    + ParseInt(SubSeq(s, 18, 19))

parseTime(s, ref) ==
    IF s = Now THEN [t |-> ref, err |-> Nil]
    ELSE IF IsRelative(s)
    THEN [t |-> ref - ParseInt(SubSeq(s, 2, Len(s) - 1)) * UnitSecs(s[Len(s)]) * TicksPerSec,
          err |-> Nil]
    ELSE IF IsAbsolute(s)
    THEN [t |-> AbsoluteSecs(s) * TicksPerSec, err |-> Nil]
    ELSE [t |-> 0, err |-> <<"unsupported time format">>]

----------------------------------------------------------------------------
(* Configuration Resolver *)

\* the environment variable takes precedence over the explicit value
getEnvOrDefault_EnvFirst(value, envKey, defaultValue) ==
    IF env[envKey] # "" THEN env[envKey]
    ELSE IF value # "" THEN value
    ELSE defaultValue

getEnvOrDefault(value, envKey, defaultValue) ==
    IF value # "" THEN value
    ELSE IF env[envKey] # "" THEN env[envKey]
    ELSE defaultValue

----------------------------------------------------------------------------
(* Argument decoding (protocol.VerifyAndUnmarshal of the go-mcp library).  *)
(* A raw payload is: whether it is well-formed JSON of the schema's types, *)
(* the set of required-candidate keys it holds, and the field values (an   *)
(* absent optional field decodes to Go's zero value).                      *)

\* no argument is required
RequiredKeys_NoneRequired(h) == {}

\* the fields whose json tag has no omitempty
RequiredKeys(h) ==
    CASE h = LokiQuery -> {"query"}
      [] h = LokiLabelNames -> {}
      [] h = LokiLabelValues -> {"label"}

ZeroReq ==
    [Query |-> "", Label |-> "", URL |-> "", Username |-> "", Password |-> "",
     Token |-> "", Start |-> EmptyStr, End |-> EmptyStr, Limit |-> 0, Org |-> "",
     Format |-> ""]

VerifyAndUnmarshal(h, raw) ==
    IF ~raw.json
    THEN [req |-> ZeroReq, err |-> <<"arguments do not match the schema">>]
    ELSE IF ~(RequiredKeys(h) \subseteq raw.keys)
    THEN [req |-> ZeroReq, err |-> <<"missing required argument">>]
    ELSE [req |-> raw.fields, err |-> Nil]

----------------------------------------------------------------------------
(* URL Builder (buildLokiQueryURL, buildLokiLabelsURL,                     *)
(* buildLokiLabelValuesURL): fails when the base URL does not parse.       *)
MalformedURL == "://bad"

\* the decimal digits of a natural number
DigitChar(d) == CHOOSE c \in Digits : DigitVal(c) = d

RECURSIVE FormatInt(_)
FormatInt(n) ==
    IF n < 10 THEN <<DigitChar(n)>>
    ELSE Append(FormatInt(n \div 10), DigitChar(n % 10))

\* seconds since the epoch as the nanoseconds written into the URL:
\* the decimal text of secs * 1000000000
NanosPerSec == <<"0", "0", "0", "0", "0", "0", "0", "0", "0">>

UnixNanoText(secs) ==
    IF secs = 0 THEN <<"0">>
    ELSE IF secs < 0 THEN <<"-">> \o FormatInt(-secs) \o NanosPerSec
    ELSE FormatInt(secs) \o NanosPerSec

UrlParses(u) == u # MalformedURL

QueryRangePath == <<"/loki/api/v1/query_range">>
LabelsPath == <<"/loki/api/v1/labels">>
LabelValuesPath(label) == <<"/loki/api/v1/label/", label, "/values">>

buildLokiQueryURL(base, query, start, end, limit) ==
    IF ~UrlParses(base) THEN [url |-> Nil, err |-> <<"malformed base URL">>]
    ELSE [url |-> Some([base |-> base, path |-> QueryRangePath, query |-> query,
                        start |-> UnixNanoText(start),
                        end |-> UnixNanoText(end), limit |-> limit]),
          err |-> Nil]

buildLokiLabelsURL(base, start, end) ==
    IF ~UrlParses(base) THEN [url |-> Nil, err |-> <<"malformed base URL">>]
    ELSE [url |-> Some([base |-> base, path |-> LabelsPath, query |-> "",
                        start |-> UnixNanoText(start),
                        end |-> UnixNanoText(end), limit |-> 0]),
          err |-> Nil]

buildLokiLabelValuesURL(base, label, start, end) ==
    IF ~UrlParses(base) THEN [url |-> Nil, err |-> <<"malformed base URL">>]
    ELSE [url |-> Some([base |-> base, path |-> LabelValuesPath(label), query |-> "",
                        start |-> UnixNanoText(start),
                        end |-> UnixNanoText(end), limit |-> 0]),
          err |-> Nil]

----------------------------------------------------------------------------
(* Backend Query Executor (executeLokiQuery, executeLokiLabelsQuery,       *)
(* executeLokiLabelValuesQuery): one HTTP GET.                             *)

\* the Authorization header of the outbound request
Authorization(username, password, token) ==
    IF token # "" THEN <<"Bearer", token>>
    ELSE IF username # "" THEN <<"Basic", username, password>>
    ELSE <<>>

\* the organization-scope header of the outbound request
ScopeOrgID(orgID) == IF orgID # "" THEN <<orgID>> ELSE <<>>

HTTPRequest(url, username, password, token, orgID) ==
    [url |-> url,
     authorization |-> Authorization(username, password, token),
     scopeOrgID |-> ScopeOrgID(orgID)]

\* what the backend and the network may answer
BodyStreams == "{status:success,data:[s1,s2]}"
BodyEmpty == "{status:success,data:[]}"
BodyOddShape == "{status:success}"
BodyNotJSON == "<html>"
BodyInternal == "internal error"
BodyNotFound == "not found"

Answers ==
    {[kind |-> "response", status |-> 200, body |-> b] :
         b \in {BodyStreams, BodyEmpty, BodyOddShape, BodyNotJSON}}
    \cup {[kind |-> "response", status |-> 500, body |-> BodyInternal],
          [kind |-> "response", status |-> 404, body |-> BodyNotFound],
          [kind |-> "unreachable", status |-> 0, body |-> ""],
          [kind |-> "cancelled", status |-> 0, body |-> ""]}

Is2xx(status) == status >= 200 /\ status < 300

\* the executor's outcome for an answer
executeLoki(answer) ==
    IF answer.kind = "unreachable"
    THEN [result |-> Nil, err |-> <<"connection refused">>]
    ELSE IF answer.kind = "cancelled"
    THEN [result |-> Nil, err |-> <<"context canceled">>]
    ELSE IF ~Is2xx(answer.status)
    THEN [result |-> Nil,
          err |-> <<"HTTP error: ", ToString(answer.status), " - ", answer.body>>]
    ELSE IF answer.body = BodyNotJSON
    THEN [result |-> Nil, err |-> <<"invalid JSON">>]
    ELSE [result |-> Some(answer.body), err |-> Nil]

----------------------------------------------------------------------------
(* Result Formatter (formatLokiResults, formatLokiLabelsResults,           *)
(* formatLokiLabelValuesResults)                                           *)
Formats == {"raw", "json", "text"}

formatLoki(h, result, format) ==
    IF format \notin Formats
    THEN [text |-> <<>>, err |-> <<"unsupported format: ", format>>]
    ELSE IF result = Some(BodyOddShape)
    THEN [text |-> <<>>, err |-> <<"unexpected result shape">>]
    ELSE [text |-> <<h, format>> \o result, err |-> Nil]

----------------------------------------------------------------------------
(* Error texts of the handlers: fmt.Errorf("<prefix>: %v", err) *)
InvalidStartTime == "invalid start time: "
InvalidEndTime == "invalid end time: "
FailedToFormat == "failed to format results: "

\* the URL-build failure is reported with the text of the backend call
BuildPrefix_Copied(h) ==
    CASE h = LokiQuery -> "query execution failed: "
      [] h = LokiLabelNames -> "labels query execution failed: "
      [] h = LokiLabelValues -> "label values query execution failed: "

BuildPrefix(h) ==
    CASE h = LokiQuery -> "failed to build query URL: "
      [] h = LokiLabelNames -> "failed to build labels URL: "
      [] h = LokiLabelValues -> "failed to build label values URL: "

ExecPrefix(h) ==
    CASE h = LokiQuery -> "query execution failed: "
      [] h = LokiLabelNames -> "labels query execution failed: "
      [] h = LokiLabelValues -> "label values query execution failed: "

\* the cause is left out of the wrapped error
Errorf_NoCause(prefix, e) == <<prefix>>

Errorf(prefix, e) == <<prefix>> \o e

\* what a handler returns: (*CallToolResult, error)
Failure(e) == [result |-> Nil, err |-> e]

TextContent(text) == [Type |-> "text", Text |-> text]

Success(text) == [result |-> Some([Content |-> <<TextContent(text)>>]), err |-> Nil]

NoReturn == [result |-> Nil, err |-> Nil]

----------------------------------------------------------------------------
(* The state of one invocation.  parsed, built, sent and formatted record  *)
(* the calls the handler has made to the resolver, the URL builder, the    *)
(* executor and the formatter, with their arguments; answers records what  *)
(* came back for each request sent; failedAt is the return statement that  *)
(* ended the invocation with an error; trace lists the steps taken, in     *)
(* order; reads lists the clock values the invocation has read.            *)
NewInvocation(p, h, raw) ==
    [pc |-> p, handler |-> h, raw |-> raw, req |-> ZeroReq,
     lokiURL |-> "", username |-> "", password |-> "", token |-> "", orgID |-> "",
     start |-> 0, end |-> 0, limit |-> 0, format |-> "",
     url |-> Nil, result |-> Nil, ret |-> NoReturn,
     parsed |-> <<>>, built |-> <<>>, sent |-> <<>>, answers |-> <<>>,
     formatted |-> <<>>, failedAt |-> "", trace |-> <<>>, reads |-> <<>>]

ZeroRaw == [json |-> TRUE, keys |-> {}, fields |-> ZeroReq]

Absent == NewInvocation("absent", LokiLabelNames, ZeroRaw)

\* return nil, err
Fail(i, stage, e) ==
    [inv EXCEPT ![i].pc = "done", ![i].ret = Failure(e), ![i].failedAt = stage]

\* invocation i takes the named step
Traced(i, step) == [inv EXCEPT ![i].trace = Append(@, step)]

----------------------------------------------------------------------------
(* The steps of Handle*Protocol, for invocation i *)

\* req := new(...); VerifyAndUnmarshal(request.RawArguments, req)
Decode(i) ==
    /\ inv[i].pc = "pending"
    /\ LET d == VerifyAndUnmarshal(inv[i].handler, inv[i].raw)
       IN  inv' = IF d.err # Nil
                  THEN [Fail(i, "decode", d.err) EXCEPT ![i].trace = Append(@, "Decode")]
                  ELSE [Traced(i, "Decode") EXCEPT ![i].pc = "config", ![i].req = d.req]
    /\ UNCHANGED <<env, clock, client, server>>

\* the five getEnvOrDefault calls
ResolveConfig(i) ==
    /\ inv[i].pc = "config"
    /\ inv' = [Traced(i, "ResolveConfig") EXCEPT
                 ![i].pc = "defaultStart",
                 ![i].lokiURL = getEnvOrDefault(inv[i].req.URL, EnvLokiURL, DefaultLokiURL),
                 ![i].username = getEnvOrDefault(inv[i].req.Username, EnvLokiUsername, ""),
                 ![i].password = getEnvOrDefault(inv[i].req.Password, EnvLokiPassword, ""),
                 ![i].token = getEnvOrDefault(inv[i].req.Token, EnvLokiToken, ""),
                 ![i].orgID = getEnvOrDefault(inv[i].req.Org, EnvLokiOrgID, "")]
    /\ UNCHANGED <<env, clock, client, server>>

\* start := time.Now().Add(-1 * time.Hour).Unix()
DefaultStart(i) ==
    /\ inv[i].pc = "defaultStart"
    /\ inv' = [Traced(i, "DefaultStart") EXCEPT ![i].reads = Append(@, clock),
                          ![i].pc = "defaultEnd",
                          ![i].start = Unix(clock - HourSecs * TicksPerSec)]
    /\ UNCHANGED <<env, clock, client, server>>

\* end := time.Now().Unix(); limit := 100 (query handler)
DefaultEnd(i) ==
    /\ inv[i].pc = "defaultEnd"
    /\ inv' = [Traced(i, "DefaultEnd") EXCEPT ![i].pc = "start",
                          ![i].reads = Append(@, clock),
                          ![i].end = Unix(clock),
                          ![i].limit = IF inv[i].handler = LokiQuery
                                       THEN DefaultLimit ELSE 0]
    /\ UNCHANGED <<env, clock, client, server>>

\* an unparsable start is skipped and the default start stays in place
ResolveStart_KeepDefault(i) ==
    /\ inv[i].pc = "start"
    /\ IF inv[i].req.Start # EmptyStr
       THEN LET r == parseTime(inv[i].req.Start, clock)
                called == [Traced(i, "ResolveStart") EXCEPT ![i].parsed = Append(@, inv[i].req.Start),
                                      ![i].reads = Append(@, clock)]
            IN  inv' = IF r.err # Nil
                       THEN [called EXCEPT ![i].pc = "end"]
                       ELSE [called EXCEPT ![i].pc = "end", ![i].start = Unix(r.t)]
       ELSE inv' = [Traced(i, "ResolveStart") EXCEPT ![i].pc = "end"]
    /\ UNCHANGED <<env, clock, client, server>>

\* the start is resolved against the time read for the default
ResolveStart_StaleClock(i) ==
    /\ inv[i].pc = "start"
    /\ IF inv[i].req.Start # EmptyStr
       THEN LET r == parseTime(inv[i].req.Start, inv[i].reads[1])
                called == [Traced(i, "ResolveStart") EXCEPT ![i].parsed = Append(@, inv[i].req.Start),
                                      ![i].reads = Append(@, clock)]
            IN  inv' = IF r.err # Nil
                       THEN [called EXCEPT ![i].pc = "done",
                                           ![i].ret = Failure(Errorf(InvalidStartTime, r.err)),
                                           ![i].failedAt = "start"]
                       ELSE [called EXCEPT ![i].pc = "end", ![i].start = Unix(r.t)]
       ELSE inv' = [Traced(i, "ResolveStart") EXCEPT ![i].pc = "end"]
    /\ UNCHANGED <<env, clock, client, server>>

\* if req.Start != "" { parseTime(req.Start) ... start = startTime.Unix() }
ResolveStart(i) ==
    /\ inv[i].pc = "start"
    /\ IF inv[i].req.Start # EmptyStr
       THEN LET r == parseTime(inv[i].req.Start, clock)
                called == [Traced(i, "ResolveStart") EXCEPT ![i].parsed = Append(@, inv[i].req.Start),
                                      ![i].reads = Append(@, clock)]
            IN  inv' = IF r.err # Nil
                       THEN [called EXCEPT ![i].pc = "done",
                                           ![i].ret = Failure(Errorf(InvalidStartTime, r.err)),
                                           ![i].failedAt = "start"]
                       ELSE [called EXCEPT ![i].pc = "end", ![i].start = Unix(r.t)]
       ELSE inv' = [Traced(i, "ResolveStart") EXCEPT ![i].pc = "end"]
    /\ UNCHANGED <<env, clock, client, server>>

\* a supplied end moves the default start to one hour before it
ResolveEnd_MovesStart(i) ==
    /\ inv[i].pc = "end"
    /\ IF inv[i].req.End # EmptyStr
       THEN LET r == parseTime(inv[i].req.End, clock)
                called == [Traced(i, "ResolveEnd") EXCEPT ![i].parsed = Append(@, inv[i].req.End),
                                      ![i].reads = Append(@, clock)]
            IN  inv' = IF r.err # Nil
                       THEN [called EXCEPT ![i].pc = "done",
                                           ![i].ret = Failure(Errorf(InvalidEndTime, r.err)),
                                           ![i].failedAt = "end"]
                       ELSE [called EXCEPT ![i].pc = "options", ![i].end = Unix(r.t),
                                           ![i].start = IF inv[i].req.Start = EmptyStr
                                                        THEN Unix(r.t) - HourSecs ELSE @]
       ELSE inv' = [Traced(i, "ResolveEnd") EXCEPT ![i].pc = "options"]
    /\ UNCHANGED <<env, clock, client, server>>

\* the end argument goes to the resolver whether or not it is empty
ResolveEnd_Unguarded(i) ==
    /\ inv[i].pc = "end"
    /\ LET r == parseTime(inv[i].req.End, clock)
           called == [Traced(i, "ResolveEnd") EXCEPT ![i].parsed = Append(@, inv[i].req.End),
                                 ![i].reads = Append(@, clock)]
       IN  inv' = IF r.err # Nil
                  THEN [called EXCEPT ![i].pc = "done",
                                      ![i].ret = Failure(Errorf(InvalidEndTime, r.err)),
                                      ![i].failedAt = "end"]
                  ELSE [called EXCEPT ![i].pc = "options", ![i].end = Unix(r.t)]
    /\ UNCHANGED <<env, clock, client, server>>

\* if req.End != "" { parseTime(req.End) ... end = endTime.Unix() }
ResolveEnd(i) ==
    /\ inv[i].pc = "end"
    /\ IF inv[i].req.End # EmptyStr
       THEN LET r == parseTime(inv[i].req.End, clock)
                called == [Traced(i, "ResolveEnd") EXCEPT ![i].parsed = Append(@, inv[i].req.End),
                                      ![i].reads = Append(@, clock)]
            IN  inv' = IF r.err # Nil
                       THEN [called EXCEPT ![i].pc = "done",
                                           ![i].ret = Failure(Errorf(InvalidEndTime, r.err)),
                                           ![i].failedAt = "end"]
                       ELSE [called EXCEPT ![i].pc = "options", ![i].end = Unix(r.t)]
       ELSE inv' = [Traced(i, "ResolveEnd") EXCEPT ![i].pc = "options"]
    /\ UNCHANGED <<env, clock, client, server>>

\* the float is rounded up
IntOf_RoundUp(f) == (f + LimitScale - 1) \div LimitScale

\* int(f) for a float64 f > 0: truncation
IntOf(f) == f \div LimitScale

\* the format is checked with the other options, before the URL is built
Options_ValidateFormat(i) ==
    /\ inv[i].pc = "options"
    /\ LET format == IF inv[i].req.Format # "" THEN inv[i].req.Format ELSE DefaultFormat
           taken == [Traced(i, "Options") EXCEPT
                       ![i].limit = IF inv[i].handler = LokiQuery /\ inv[i].req.Limit > 0
                                    THEN IntOf(inv[i].req.Limit) ELSE @,
                       ![i].format = format]
       IN  inv' = IF format \notin Formats
                  THEN [taken EXCEPT ![i].pc = "done",
                                     ![i].ret = Failure(Errorf(FailedToFormat,
                                                    <<"unsupported format: ", format>>)),
                                     ![i].failedAt = "format"]
                  ELSE [taken EXCEPT ![i].pc = "build"]
    /\ UNCHANGED <<env, clock, client, server>>

\* a format that is not recognised is replaced by the default
Options_Sanitize(i) ==
    /\ inv[i].pc = "options"
    /\ inv' = [Traced(i, "Options") EXCEPT
                 ![i].pc = "build",
                 ![i].limit = IF inv[i].handler = LokiQuery /\ inv[i].req.Limit > 0
                              THEN IntOf(inv[i].req.Limit) ELSE @,
                 ![i].format = IF inv[i].req.Format \in Formats
                               THEN inv[i].req.Format ELSE DefaultFormat]
    /\ UNCHANGED <<env, clock, client, server>>

\* if req.Limit > 0 { limit = int(req.Limit) }; format := "raw" unless req.Format != ""
Options(i) ==
    /\ inv[i].pc = "options"
    /\ inv' = [Traced(i, "Options") EXCEPT
                 ![i].pc = "build",
                 ![i].limit = IF inv[i].handler = LokiQuery /\ inv[i].req.Limit > 0
                              THEN IntOf(inv[i].req.Limit) ELSE @,
                 ![i].format = IF inv[i].req.Format # ""
                               THEN inv[i].req.Format ELSE DefaultFormat]
    /\ UNCHANGED <<env, clock, client, server>>

\* the bounds are put in order before the URL is built
BuildArgs_Ordered(v) ==
    LET lo == IF v.start <= v.end THEN v.start ELSE v.end
        hi == IF v.start <= v.end THEN v.end ELSE v.start
    IN  CASE v.handler = LokiQuery ->
               [base |-> v.lokiURL, param |-> v.req.Query,
                start |-> lo, end |-> hi, limit |-> v.limit]
          [] v.handler = LokiLabelNames ->
               [base |-> v.lokiURL, param |-> "", start |-> lo, end |-> hi, limit |-> 0]
          [] v.handler = LokiLabelValues ->
               [base |-> v.lokiURL, param |-> v.req.Label,
                start |-> lo, end |-> hi, limit |-> 0]

\* what the handler hands to its URL builder
BuildArgs(v) ==
    CASE v.handler = LokiQuery ->
           [base |-> v.lokiURL, param |-> v.req.Query,
            start |-> v.start, end |-> v.end, limit |-> v.limit]
      [] v.handler = LokiLabelNames ->
           [base |-> v.lokiURL, param |-> "",
            start |-> v.start, end |-> v.end, limit |-> 0]
      [] v.handler = LokiLabelValues ->
           [base |-> v.lokiURL, param |-> v.req.Label,
            start |-> v.start, end |-> v.end, limit |-> 0]

\* the two bounds change places in the call of the URL builder
buildURL_SwappedBounds(h, a) ==
    CASE h = LokiQuery -> buildLokiQueryURL(a.base, a.param, a.end, a.start, a.limit)
      [] h = LokiLabelNames -> buildLokiLabelsURL(a.base, a.end, a.start)
      [] h = LokiLabelValues -> buildLokiLabelValuesURL(a.base, a.param, a.end, a.start)

buildURL(h, a) ==
    CASE h = LokiQuery -> buildLokiQueryURL(a.base, a.param, a.start, a.end, a.limit)
      [] h = LokiLabelNames -> buildLokiLabelsURL(a.base, a.start, a.end)
      [] h = LokiLabelValues -> buildLokiLabelValuesURL(a.base, a.param, a.start, a.end)

\* queryURL, err := buildLoki...URL(...)
BuildURL(i) ==
    /\ inv[i].pc = "build"
    /\ LET a == BuildArgs(inv[i])
           b == buildURL(inv[i].handler, a)
           called == [Traced(i, "BuildURL") EXCEPT ![i].built = Append(@, a)]
       IN  inv' = IF b.err # Nil
                  THEN [called EXCEPT ![i].pc = "done",
                                      ![i].ret = Failure(Errorf(BuildPrefix(inv[i].handler), b.err)),
                                      ![i].failedAt = "build"]
                  ELSE [called EXCEPT ![i].pc = "execute", ![i].url = b.url]
    /\ UNCHANGED <<env, clock, client, server>>

\* the credentials and the org id are kept in one place for all invocations,
\* written by whichever invocation resolved its configuration first
ExecRequest_Shared(v) ==
    LET k == IF \E j \in Invs : inv[j].trace # <<>> /\ "ResolveConfig" \in Range(inv[j].trace)
             THEN CHOOSE j \in Invs : "ResolveConfig" \in Range(inv[j].trace) /\
                      \A n \in Invs : "ResolveConfig" \in Range(inv[n].trace) => j <= n
             ELSE 1
    IN  HTTPRequest(v.url, inv[k].username, inv[k].password, inv[k].token, inv[k].orgID)

\* token and password change places in the call
ExecRequest_Swapped(v) == HTTPRequest(v.url, v.username, v.token, v.password, v.orgID)

\* the request the handler has the executor send
ExecRequest(v) == HTTPRequest(v.url, v.username, v.password, v.token, v.orgID)

\* a failed backend call is tried again
Execute_Retry(i) ==
    /\ inv[i].pc = "execute"
    /\ \E answer \in Answers :
         LET x == executeLoki(answer)
             called == [Traced(i, "Execute") EXCEPT ![i].sent = Append(@, ExecRequest(inv[i])),
                                   ![i].answers = Append(@, answer)]
         IN  inv' = IF x.err # Nil
                    THEN IF Len(inv[i].sent) = 0
                         THEN called
                         ELSE [called EXCEPT ![i].pc = "done",
                                             ![i].ret = Failure(Errorf(ExecPrefix(inv[i].handler), x.err)),
                                             ![i].failedAt = "execute"]
                    ELSE [called EXCEPT ![i].pc = "format", ![i].result = x.result]
    /\ UNCHANGED <<env, clock, client, server>>

\* the error of the backend call is dropped and the formatter runs on the nil result
Execute_IgnoreError(i) ==
    /\ inv[i].pc = "execute"
    /\ \E answer \in Answers :
         LET x == executeLoki(answer)
             called == [Traced(i, "Execute") EXCEPT ![i].sent = Append(@, ExecRequest(inv[i])),
                                   ![i].answers = Append(@, answer)]
         IN  inv' = [called EXCEPT ![i].pc = "format", ![i].result = x.result]
    /\ UNCHANGED <<env, clock, client, server>>

\* result, err := executeLoki...(ctx, url, username, password, token, orgID)
Execute(i) ==
    /\ inv[i].pc = "execute"
    /\ \E answer \in Answers :
         LET x == executeLoki(answer)
             called == [Traced(i, "Execute") EXCEPT ![i].sent = Append(@, ExecRequest(inv[i])),
                                   ![i].answers = Append(@, answer)]
         IN  inv' = IF x.err # Nil
                    THEN [called EXCEPT ![i].pc = "done",
                                        ![i].ret = Failure(Errorf(ExecPrefix(inv[i].handler), x.err)),
                                        ![i].failedAt = "execute"]
                    ELSE [called EXCEPT ![i].pc = "format", ![i].result = x.result]
    /\ UNCHANGED <<env, clock, client, server>>

\* a formatting failure is returned together with a result
FormatAndWrap_Both(i) ==
    /\ inv[i].pc = "format"
    /\ LET f == formatLoki(inv[i].handler, inv[i].result, inv[i].format)
           called == [Traced(i, "FormatAndWrap") EXCEPT ![i].formatted =
                                     Append(@, [result |-> inv[i].result,
                                                format |-> inv[i].format,
                                                text |-> f.text])]
       IN  inv' = IF f.err # Nil
                  THEN [called EXCEPT ![i].pc = "done",
                                      ![i].ret = [result |-> Success(f.text).result,
                                                  err |-> Errorf(FailedToFormat, f.err)],
                                      ![i].failedAt = "format"]
                  ELSE [called EXCEPT ![i].pc = "done", ![i].ret = Success(f.text)]
    /\ UNCHANGED <<env, clock, client, server>>

\* formattedResult, err := formatLoki...(result, format); return &CallToolResult{...}, nil
FormatAndWrap(i) ==
    /\ inv[i].pc = "format"
    /\ LET f == formatLoki(inv[i].handler, inv[i].result, inv[i].format)
           called == [Traced(i, "FormatAndWrap") EXCEPT ![i].formatted =
                                     Append(@, [result |-> inv[i].result,
                                                format |-> inv[i].format,
                                                text |-> f.text])]
       IN  inv' = IF f.err # Nil
                  THEN [called EXCEPT ![i].pc = "done",
                                      ![i].ret = Failure(Errorf(FailedToFormat, f.err)),
                                      ![i].failedAt = "format"]
                  ELSE [called EXCEPT ![i].pc = "done", ![i].ret = Success(f.text)]
    /\ UNCHANGED <<env, clock, client, server>>

\* the wall clock advances
Tick ==
    /\ clock < ClockBase + MaxTicks
    /\ clock' = clock + 1
    /\ UNCHANGED <<env, inv, client, server>>

Next ==
    \/ \E i \in Invs : Decode(i)
    \/ \E i \in Invs : ResolveConfig(i)
    \/ \E i \in Invs : DefaultStart(i)
    \/ \E i \in Invs : DefaultEnd(i)
    \/ \E i \in Invs : ResolveStart(i)
    \/ \E i \in Invs : ResolveEnd(i)
    \/ \E i \in Invs : Options(i)
    \/ \E i \in Invs : BuildURL(i)
    \/ \E i \in Invs : Execute(i)
    \/ \E i \in Invs : FormatAndWrap(i)
    \/ Tick

----------------------------------------------------------------------------
(* The client's configuration loader (cmd/client/main.go).  A command-line *)
(* argument and an environment value are sequences of pieces of text, the  *)
(* pieces "-" and "=" standing alone, so that the flag syntax is parsed;   *)
(* the empty string is the empty sequence.                                 *)
ServerURLFlag == <<"server-url">>
DefaultServerURL == <<"http://localhost:8000/mcp">>
DefaultTimeoutSecs == 30

\* position of the first "=" at or after the second piece of a flag name, or 0
EqualsAt(name) ==
    IF \E k \in 2..Len(name) : name[k] = "="
    THEN CHOOSE k \in 2..Len(name) : name[k] = "=" /\ \A j \in 2..(k - 1) : name[j] # "="
    ELSE 0

\* flag.FlagSet.Parse with the one string flag server-url, errors ignored:
\* the value of the flag after parsing args, cur being its value so far
RECURSIVE FlagParse(_, _)
FlagParse(args, cur) ==
    IF args = <<>> THEN cur
    ELSE LET s == Head(args)
             rest == Tail(args)
             numMinuses == IF s[2] = "-" THEN 2 ELSE 1
             name == SubSeq(s, numMinuses + 1, Len(s))
             eq == EqualsAt(name)
             flagName == IF eq = 0 THEN name ELSE SubSeq(name, 1, eq - 1)
         IN  IF Len(s) < 2 \/ s[1] # "-" THEN cur
             ELSE IF numMinuses = 2 /\ Len(s) = 2 THEN cur
             ELSE IF name = <<>> \/ name[1] = "-" \/ name[1] = "=" THEN cur
             ELSE IF flagName # ServerURLFlag THEN cur
             ELSE IF eq # 0 THEN FlagParse(rest, SubSeq(name, eq + 1, Len(name)))
             ELSE IF rest = <<>> THEN cur
             ELSE FlagParse(Tail(rest), Head(rest))

\* strconv.Atoi: an optional sign and at least one digit
Atoi(s) ==
    LET signed == s # <<>> /\ s[1] \in {"+", "-"}
        body == IF signed THEN Tail(s) ELSE s
    IN  IF body = <<>> \/ \E k \in 1..Len(body) : body[k] \notin Digits
        THEN [n |-> 0, err |-> <<"invalid syntax">>]
        ELSE [n |-> IF signed /\ s[1] = "-" THEN -ParseInt(body) ELSE ParseInt(body),
              err |-> Nil]

\* the environment value overrides the flag
LoadConfigWithArgs_EnvOverFlag(args, environ) ==
    LET serverURL == FlagParse(args, <<>>)
        t == Atoi(environ.LOKI_QUERY_TIMEOUT)
    IN  [ServerURL |-> IF environ.MCP_SERVER_URL # <<>> THEN environ.MCP_SERVER_URL
                       ELSE IF serverURL # <<>> THEN serverURL
                       ELSE DefaultServerURL,
         Timeout |-> IF environ.LOKI_QUERY_TIMEOUT # <<>> /\ t.err = Nil /\ t.n > 0
                     THEN t.n ELSE DefaultTimeoutSecs]

\* the Config returned for the arguments args in the environment environ;
\* Timeout is in seconds
LoadConfigWithArgs(args, environ) ==
    LET serverURL == FlagParse(args, <<>>)
        t == Atoi(environ.LOKI_QUERY_TIMEOUT)
    IN  [ServerURL |-> IF serverURL # <<>> THEN serverURL
                       ELSE IF environ.MCP_SERVER_URL # <<>> THEN environ.MCP_SERVER_URL
                       ELSE DefaultServerURL,
         Timeout |-> IF environ.LOKI_QUERY_TIMEOUT # <<>> /\ t.err = Nil /\ t.n > 0
                     THEN t.n ELSE DefaultTimeoutSecs]

NoConfig == [ServerURL |-> <<>>, Timeout |-> 0]

\* flag.FlagSet.Args after Parse: the arguments left when flag parsing stops
RECURSIVE FlagArgs(_)
FlagArgs(args) ==
    IF args = <<>> THEN args
    ELSE LET s == Head(args)
             rest == Tail(args)
             numMinuses == IF s[2] = "-" THEN 2 ELSE 1
             name == SubSeq(s, numMinuses + 1, Len(s))
             eq == EqualsAt(name)
             flagName == IF eq = 0 THEN name ELSE SubSeq(name, 1, eq - 1)
         IN  IF Len(s) < 2 \/ s[1] # "-" THEN args
             ELSE IF numMinuses = 2 /\ Len(s) = 2 THEN rest
             ELSE IF name = <<>> \/ name[1] = "-" \/ name[1] = "=" THEN args
             ELSE IF flagName # ServerURLFlag THEN rest
             ELSE IF eq # 0 THEN FlagArgs(rest)
             ELSE IF rest = <<>> THEN rest
             ELSE FlagArgs(Tail(rest))

\* strings.HasPrefix(s, "http"); an address is written with "http" as its first piece
HasPrefixHttp(s) == s # <<>> /\ s[1] = "http"

\* a float64 as its sign, its whole part and the digits after the point
ZeroFloat == [neg |-> FALSE, whole |-> 0, frac |-> <<>>]

\* strconv.ParseFloat for decimal text: sign, digits, point, digits
ParseFloat(s) ==
    LET signed == s # <<>> /\ s[1] \in {"+", "-"}
        body == IF signed THEN Tail(s) ELSE s
        points == {k \in 1..Len(body) : body[k] = "."}
        dot == IF points = {} THEN Len(body) + 1 ELSE CHOOSE k \in points : TRUE
        whole == SubSeq(body, 1, dot - 1)
        frac == SubSeq(body, dot + 1, Len(body))
    IN  IF \/ Cardinality(points) > 1
           \/ whole \o frac = <<>>
           \/ \E k \in 1..Len(body) : body[k] \notin Digits \cup {"."}
        THEN [val |-> ZeroFloat, err |-> <<"invalid syntax">>]
        ELSE [val |-> [neg |-> signed /\ s[1] = "-", whole |-> ParseInt(whole), frac |-> frac],
              err |-> Nil]

\* limit > 0
Positive(f) == ~f.neg /\ (f.whole > 0 \/ \E k \in 1..Len(f.frac) : f.frac[k] # "0")

\* what the processing of a command comes to: a request, os.Exit(1) or log.Fatalf
ToolCall(name, toolArgs) ==
    [kind |-> "call", method |-> "tools/call", Name |-> name, Arguments |-> toolArgs, msg |-> <<>>]
ListToolsCall ==
    [kind |-> "call", method |-> "tools/list", Name |-> "", Arguments |-> <<>>, msg |-> <<>>]
Exit1 == [kind |-> "exit1", method |-> "", Name |-> "", Arguments |-> <<>>, msg |-> <<>>]
Fatalf(msg) == [kind |-> "fatal", method |-> "", Name |-> "", Arguments |-> <<>>, msg |-> msg]

\* case "loki_query": the positional arguments become the tool arguments
LokiQueryCommand(args) ==
    LET withURL == HasPrefixHttp(args[2])
        argOffset == IF withURL THEN 3 ELSE 2
        lokiURL == IF withURL THEN args[2] ELSE <<>>
        query == IF withURL THEN args[3] ELSE args[2]
        start == IF Len(args) > argOffset THEN args[argOffset + 1] ELSE <<>>
        end == IF Len(args) > argOffset + 1 THEN args[argOffset + 2] ELSE <<>>
        limitVal == ParseFloat(args[argOffset + 3])
        limit == IF Len(args) > argOffset + 2 THEN limitVal.val ELSE ZeroFloat
        org == IF Len(args) > argOffset + 3 THEN args[argOffset + 4] ELSE <<>>
        keys == {"query"}
                \cup (IF lokiURL # <<>> THEN {"url"} ELSE {})
                \cup (IF start # <<>> THEN {"start"} ELSE {})
                \cup (IF end # <<>> THEN {"end"} ELSE {})
                \cup (IF Positive(limit) THEN {"limit"} ELSE {})
                \cup (IF org # <<>> THEN {"org"} ELSE {})
        toolArgs == [k \in keys |->
                       CASE k = "query" -> query [] k = "url" -> lokiURL
                         [] k = "start" -> start [] k = "end" -> end
                         [] k = "limit" -> limit [] k = "org" -> org]
    IN  IF Len(args) < 2 THEN Exit1
        ELSE IF withURL /\ Len(args) < 3 THEN Exit1
        ELSE IF Len(args) > argOffset + 2 /\ limitVal.err # Nil
        THEN Fatalf(<<"Invalid number for limit: ">> \o limitVal.err)
        ELSE ToolCall("loki_query", toolArgs)

\* case "loki_label_names"
LokiLabelNamesCommand(args) ==
    ToolCall("loki_label_names",
             [k \in (IF Len(args) > 1 /\ HasPrefixHttp(args[2]) THEN {"url"} ELSE {}) |->
                 args[2]])

\* case "loki_label_values"
LokiLabelValuesCommand(args) ==
    IF Len(args) < 2 THEN Exit1
    ELSE ToolCall("loki_label_values",
                  [k \in {"label"} \cup (IF Len(args) > 2 /\ HasPrefixHttp(args[3])
                                         THEN {"url"} ELSE {}) |->
                      IF k = "label" THEN args[2] ELSE args[3]])

\* switch args[0]
Command(args) ==
    CASE args[1] = <<"loki_query">> -> LokiQueryCommand(args)
      [] args[1] = <<"loki_label_names">> -> LokiLabelNamesCommand(args)
      [] args[1] = <<"loki_label_values">> -> LokiLabelValuesCommand(args)
      [] args[1] = <<"list_tools">> -> ListToolsCall
      [] OTHER -> Exit1

\* the client process: rest are the positional arguments, ran whether the
\* command has been processed, call the request it has sent, waited the whole seconds it has been waiting for the
\* answer, fatal the message of log.Fatalf, printed the lines written out
NewClient(p, args, environ) ==
    [pc |-> p, args |-> args, environ |-> environ, cfg |-> NoConfig,
     rest |-> <<>>, ran |-> FALSE, call |-> Nil, waited |-> 0,
     fatal |-> <<>>, printed |-> <<>>]

\* no client process
ClientOff == NewClient("off", <<>>, [MCP_SERVER_URL |-> <<>>, LOKI_QUERY_TIMEOUT |-> <<>>])

\* cfg := LoadConfig()
LoadConfig ==
    /\ client.pc = "start"
    /\ client' = [client EXCEPT !.pc = "loaded",
                                !.cfg = LoadConfigWithArgs(client.args, client.environ)]
    /\ UNCHANGED <<env, clock, inv, server>>

\* fs.Parse(os.Args[1:]); args := fs.Args(); usage and exit without a command
ParseArgs ==
    /\ client.pc = "loaded"
    /\ LET args == FlagArgs(client.args)
       IN  client' = [client EXCEPT !.rest = args,
                                    !.pc = IF Len(args) < 1 THEN "exit1" ELSE "connect"]
    /\ UNCHANGED <<env, clock, inv, server>>

\* the transport and the MCP client are created, or one of the two fails
Connect ==
    /\ client.pc = "connect"
    /\ \E outcome \in {"ok", "transport", "client"} :
         client' = CASE outcome = "ok" -> [client EXCEPT !.pc = "command"]
                     [] outcome = "transport" ->
                          [client EXCEPT !.pc = "fatal",
                                         !.fatal = <<"Failed to create transport client: ">>]
                     [] outcome = "client" ->
                          [client EXCEPT !.pc = "fatal",
                                         !.fatal = <<"Failed to create MCP client: ">>]
    /\ UNCHANGED <<env, clock, inv, server>>

\* the command is processed up to its request, sent with ctx :=
\* context.Background(), which has no deadline
RunCommand ==
    /\ client.pc = "command"
    /\ LET c == Command(client.rest)
       IN  client' = CASE c.kind = "call" ->
                            [client EXCEPT !.pc = "calling", !.ran = TRUE, !.call = Some(c),
                                           !.waited = 0]
                       [] c.kind = "exit1" -> [client EXCEPT !.pc = "exit1", !.ran = TRUE]
                       [] c.kind = "fatal" -> [client EXCEPT !.pc = "fatal", !.ran = TRUE,
                                                        !.fatal = c.msg]
    /\ UNCHANGED <<env, clock, inv, server>>

\* what may come back for a request
ServerAnswers ==
    {[kind |-> "result", texts |-> <<"line">>],
     [kind |-> "result", texts |-> <<>>],
     [kind |-> "error", texts |-> <<"connection refused">>]}

\* a second passes without an answer; nothing bounds the wait of the client
WaitForAnswer ==
    /\ client.pc = "calling"
    /\ client.waited < MaxWaitSecs
    /\ client' = [client EXCEPT !.waited = @ + 1]
    /\ UNCHANGED <<env, clock, inv, server>>

\* the request returns: the texts of the result are printed, or the error is fatal
ReceiveAnswer ==
    /\ client.pc = "calling"
    /\ \E a \in ServerAnswers :
         client' = IF a.kind = "error"
                   THEN [client EXCEPT !.pc = "fatal",
                            !.fatal = IF client.call[1].method = "tools/list"
                                      THEN <<"Failed to list tools: ">> \o a.texts
                                      ELSE <<"Failed to call tool: ">> \o a.texts]
                   ELSE [client EXCEPT !.pc = "exit0", !.printed = a.texts]
    /\ UNCHANGED <<env, clock, inv, server>>

NextClient ==
    \/ LoadConfig
    \/ ParseArgs
    \/ Connect
    \/ RunCommand
    \/ WaitForAnswer
    \/ ReceiveAnswer

----------------------------------------------------------------------------
(* The server process (cmd/server/main.go): main, the goroutine that runs  *)
(* the MCP server and the goroutine that runs the HTTP server.  A log line *)
(* is the sequence of the pieces of text it is made of.  The five LOKI_*   *)
(* variables are read from env, the environment the handlers read too.     *)
Version == "0.1.0"
DefaultPort == "8000"
DefaultHost == "0.0.0.0"

ToolNames == <<LokiQuery, LokiLabelNames, LokiLabelValues>>

\* lines 24-43: banner, version, port and host
BannerLog(osenv) ==
    << <<"=== Loki MCP Server Starting ===">>,
       <<"Version: ", Version>>,
       IF osenv.PORT = "" THEN <<"PORT environment variable not set, using default: 8000">>
       ELSE <<"PORT environment variable set to: ", osenv.PORT>>,
       IF osenv.HOST = ""
       THEN <<"HOST environment variable not set, using default: 0.0.0.0 (all interfaces)">>
       ELSE <<"HOST environment variable set to: ", osenv.HOST>> >>

\* the password and the token are written out like the other three
ConfigLog_PlainSecrets(e) ==
    << <<"Checking Loki configuration...">>,
       IF e[EnvLokiURL] # "" THEN <<"  - LOKI_URL: ", e[EnvLokiURL]>>
       ELSE <<"  - LOKI_URL: not set (will use default or per-request URL)">>,
       IF e[EnvLokiOrgID] # "" THEN <<"  - LOKI_ORG_ID: ", e[EnvLokiOrgID]>>
       ELSE <<"  - LOKI_ORG_ID: not set">>,
       IF e[EnvLokiUsername] # "" THEN <<"  - LOKI_USERNAME: ", e[EnvLokiUsername]>>
       ELSE <<"  - LOKI_USERNAME: not set">>,
       IF e[EnvLokiPassword] # "" THEN <<"  - LOKI_PASSWORD: ", e[EnvLokiPassword]>>
       ELSE <<"  - LOKI_PASSWORD: not set">>,
       IF e[EnvLokiToken] # "" THEN <<"  - LOKI_TOKEN: ", e[EnvLokiToken]>>
       ELSE <<"  - LOKI_TOKEN: not set">> >>

\* lines 45-71: the Loki configuration found in the environment e
ConfigLog(e) ==
    << <<"Checking Loki configuration...">>,
       IF e[EnvLokiURL] # "" THEN <<"  - LOKI_URL: ", e[EnvLokiURL]>>
       ELSE <<"  - LOKI_URL: not set (will use default or per-request URL)">>,
       IF e[EnvLokiOrgID] # "" THEN <<"  - LOKI_ORG_ID: ", e[EnvLokiOrgID]>>
       ELSE <<"  - LOKI_ORG_ID: not set">>,
       IF e[EnvLokiUsername] # "" THEN <<"  - LOKI_USERNAME: ", e[EnvLokiUsername]>>
       ELSE <<"  - LOKI_USERNAME: not set">>,
       IF e[EnvLokiPassword] # "" THEN <<"  - LOKI_PASSWORD: ****** (set)">>
       ELSE <<"  - LOKI_PASSWORD: not set">>,
       IF e[EnvLokiToken] # "" THEN <<"  - LOKI_TOKEN: ****** (set)">>
       ELSE <<"  - LOKI_TOKEN: not set">> >>

\* addr := fmt.Sprintf("%s:%s", host, port)
Addr(osenv) ==
    <<IF osenv.HOST = "" THEN DefaultHost ELSE osenv.HOST, ":",
      IF osenv.PORT = "" THEN DefaultPort ELSE osenv.PORT>>

\* the server process: pc is the position of main, mcp and http the state
\* of the two goroutines, registered the tools registered so far, accepted
\* the tools that were registered when each request on /mcp was accepted,
\* steps the steps main has taken
NewServerProcess(p, osenv) ==
    [pc |-> p, osenv |-> osenv, log |-> <<>>, registered |-> <<>>,
     mcp |-> "none", http |-> "none", signalled |-> FALSE,
     accepted |-> <<>>, steps |-> <<>>, fatal |-> <<>>]

\* no server process
ServerOff == NewServerProcess("off", [PORT |-> "", HOST |-> ""])

Alive == server.pc \notin {"off", "fatal", "killed", "exit0"}

\* main takes the named step and writes the lines
Stepped(step, lines) ==
    [server EXCEPT !.steps = Append(@, step), !.log = @ \o lines]

\* log.Fatalf: the line is written and the process exits
Fatal(s, msg) == [s EXCEPT !.pc = "fatal", !.fatal = msg, !.log = Append(@, msg)]

\* lines 24-71
LogConfiguration ==
    /\ server.pc = "start"
    /\ server' = [Stepped("LogConfiguration", BannerLog(server.osenv) \o ConfigLog(env))
                    EXCEPT !.pc = "transport"]
    /\ UNCHANGED <<env, clock, inv, client>>

\* lines 73-83
CreateTransport ==
    /\ server.pc = "transport"
    /\ \E ok \in BOOLEAN :
         server' = IF ok
                   THEN [Stepped("CreateTransport",
                           << <<"Creating Streamable HTTP transport...">>,
                              <<"Streamable HTTP transport created successfully (Stateless mode)">> >>)
                           EXCEPT !.pc = "newServer"]
                   ELSE Fatal(Stepped("CreateTransport",
                                      << <<"Creating Streamable HTTP transport...">> >>),
                              <<"Failed to create streamable HTTP transport: ">>)
    /\ UNCHANGED <<env, clock, inv, client>>

\* lines 85-94
NewServer ==
    /\ server.pc = "newServer"
    /\ \E ok \in BOOLEAN :
         server' = IF ok
                   THEN [Stepped("NewServer",
                           << <<"Initializing MCP server...">>,
                              <<"MCP server initialized successfully">> >>)
                           EXCEPT !.pc = "register"]
                   ELSE Fatal(Stepped("NewServer", << <<"Initializing MCP server...">> >>),
                              <<"Failed to create MCP server: ">>)
    /\ UNCHANGED <<env, clock, inv, client>>

\* the goroutines are started once the first tool is registered
RegisterTool_StartsEarly ==
    /\ server.pc = "register"
    /\ LET n == Len(server.registered) + 1
           name == ToolNames[n]
           intro == IF n = 1 THEN << <<"Registering Loki tools...">> >> ELSE <<>>
       IN  \E ok \in BOOLEAN :
             server' = IF ok
                       THEN [Stepped("RegisterTool", intro \o << <<"  - ", name, " tool registered">> >>)
                               EXCEPT !.registered = Append(@, name), !.pc = "startMCP"]
                       ELSE Fatal(Stepped("RegisterTool", intro),
                                  <<"Failed to create ", name, " tool: ">>)
    /\ UNCHANGED <<env, clock, inv, client>>

\* lines 96-123: the next of the three tools is created and registered with
\* its handler, or its creation fails
RegisterTool ==
    /\ server.pc = "register"
    /\ LET n == Len(server.registered) + 1
           name == ToolNames[n]
           intro == IF n = 1 THEN << <<"Registering Loki tools...">> >> ELSE <<>>
           outro == IF n = Len(ToolNames)
                    THEN << <<"All tools registered successfully">> >> ELSE <<>>
       IN  \E ok \in BOOLEAN :
             server' = IF ok
                       THEN [Stepped("RegisterTool",
                               intro \o << <<"  - ", name, " tool registered">> >> \o outro)
                               EXCEPT !.registered = Append(@, name),
                                      !.pc = IF n = Len(ToolNames) THEN "startMCP" ELSE "register"]
                       ELSE Fatal(Stepped("RegisterTool", intro),
                                  <<"Failed to create ", name, " tool: ">>)
    /\ UNCHANGED <<env, clock, inv, client>>

\* lines 125-131: go func() { ... mcpServer.Run() ... }()
StartMCPServer ==
    /\ server.pc = "startMCP"
    /\ server' = [Stepped("StartMCPServer", <<>>) EXCEPT !.pc = "startHTTP", !.mcp = "spawned"]
    /\ UNCHANGED <<env, clock, inv, client>>

\* lines 133-159: the endpoint is registered on the mux and the HTTP
\* goroutine is started
StartHTTPServer ==
    /\ server.pc = "startHTTP"
    /\ server' = [Stepped("StartHTTPServer",
                    << <<"Registered endpoint: /mcp (Bedrock AgentCore compliant)">>,
                       <<"=== Starting HTTP Server ===">>,
                       <<"Server Address: http://">> \o Addr(server.osenv),
                       <<"Streamable HTTP Endpoint: http://">> \o Addr(server.osenv) \o <<"/mcp">>,
                       <<"Server is ready to accept connections">>,
                       <<"Press Ctrl+C to shutdown">> >>)
                    EXCEPT !.pc = "notify", !.http = "spawned"]
    /\ UNCHANGED <<env, clock, inv, client>>

\* lines 162-163: signal.Notify(stop, os.Interrupt, syscall.SIGTERM)
NotifySignals ==
    /\ server.pc = "notify"
    /\ server' = [Stepped("NotifySignals", <<>>) EXCEPT !.pc = "wait"]
    /\ UNCHANGED <<env, clock, inv, client>>

\* lines 164-167: <-stop
AwaitSignal ==
    /\ server.pc = "wait"
    /\ server.signalled
    /\ server' = [Stepped("AwaitSignal",
                    << <<"=== Shutdown signal received ===">>,
                       <<"Shutting down server gracefully...">> >>)
                    EXCEPT !.pc = "shutdownMCP"]
    /\ UNCHANGED <<env, clock, inv, client>>

\* an error of the MCP server's Shutdown ends the process
ShutdownMCP_AbortOnError ==
    /\ server.pc = "shutdownMCP"
    /\ \E ok \in BOOLEAN :
         server' = IF ok
                   THEN [Stepped("ShutdownMCP", <<>>) EXCEPT
                           !.pc = "shutdownHTTP",
                           !.mcp = IF @ = "running" THEN "stopped" ELSE @]
                   ELSE Fatal(Stepped("ShutdownMCP", <<>>),
                              <<"Error shutting down MCP server: ">>)
    /\ UNCHANGED <<env, clock, inv, client>>

\* lines 169-172: mcpServer.Shutdown; its error is logged and nothing more
ShutdownMCP ==
    /\ server.pc = "shutdownMCP"
    /\ \E ok \in BOOLEAN :
         server' = [Stepped("ShutdownMCP",
                       IF ok THEN <<>> ELSE << <<"Error shutting down MCP server: ">> >>)
                      EXCEPT !.pc = "shutdownHTTP",
                             !.mcp = IF @ = "running" THEN "stopped" ELSE @]
    /\ UNCHANGED <<env, clock, inv, client>>

\* lines 174-180: httpServer.Shutdown; "Server stopped"; main returns
ShutdownHTTP ==
    /\ server.pc = "shutdownHTTP"
    /\ \E ok \in BOOLEAN :
         server' = [Stepped("ShutdownHTTP",
                       (IF ok THEN <<>> ELSE << <<"Error shutting down HTTP server: ">> >>)
                       \o << <<"Server stopped">> >>)
                      EXCEPT !.pc = "exit0",
                             !.http = IF @ = "listening" THEN "closed" ELSE @]
    /\ UNCHANGED <<env, clock, inv, client>>

\* the MCP goroutine: lines 127-128, mcpServer.Run() is entered
MCPRun ==
    /\ Alive /\ server.mcp = "spawned"
    /\ server' = [server EXCEPT !.mcp = "running",
                                !.log = Append(@, <<"Starting MCP server...">>)]
    /\ UNCHANGED <<env, clock, inv, client>>

\* lines 128-130: mcpServer.Run() returns an error
MCPRunFails ==
    /\ Alive /\ server.mcp = "running"
    /\ server' = Fatal(server, <<"MCP server error: ">>)
    /\ UNCHANGED <<env, clock, inv, client>>

\* the HTTP goroutine: lines 155-158, ListenAndServe binds and serves, or
\* fails with an error other than ErrServerClosed
HTTPListen ==
    /\ Alive /\ server.http = "spawned"
    /\ LET s == [server EXCEPT !.log = Append(@, <<"HTTP server listening on ">>
                                                 \o Addr(server.osenv) \o <<"...">>)]
       IN  \E ok \in BOOLEAN :
             server' = IF ok THEN [s EXCEPT !.http = "listening"]
                       ELSE Fatal(s, <<"HTTP server error: ">>)
    /\ UNCHANGED <<env, clock, inv, client>>

\* a request is accepted on /mcp
AcceptRequest ==
    /\ Alive /\ server.http = "listening"
    /\ Len(server.accepted) < MaxRequests
    /\ server' = [server EXCEPT !.accepted = Append(@, Range(server.registered))]
    /\ UNCHANGED <<env, clock, inv, client>>

\* SIGINT or SIGTERM is delivered: to the channel once signal.Notify has
\* run, with the default disposition, which ends the process, before
Signal ==
    /\ Alive /\ ~server.signalled
    /\ server' = IF "NotifySignals" \in Range(server.steps)
                 THEN [server EXCEPT !.signalled = TRUE]
                 ELSE [server EXCEPT !.signalled = TRUE, !.pc = "killed"]
    /\ UNCHANGED <<env, clock, inv, client>>

NextServer ==
    \/ LogConfiguration
    \/ CreateTransport
    \/ NewServer
    \/ RegisterTool
    \/ StartMCPServer
    \/ StartHTTPServer
    \/ NotifySignals
    \/ AwaitSignal
    \/ ShutdownMCP
    \/ ShutdownHTTP
    \/ MCPRun
    \/ MCPRunFails
    \/ HTTPListen
    \/ AcceptRequest
    \/ Signal

----------------------------------------------------------------------------
(* Inputs *)

UnsetEnv == [k \in EnvKeys |-> ""]

SetEnv == [k \in EnvKeys |->
             CASE k = EnvLokiURL -> "http://env:3100"
               [] k = EnvLokiUsername -> "envuser"
               [] k = EnvLokiPassword -> "envpass"
               [] k = EnvLokiToken -> "envtoken"
               [] k = EnvLokiOrgID -> "envorg"]

\* every environment in which each variable is unset or set
Envs == {[k \in EnvKeys |-> IF k \in S THEN SetEnv[k] ELSE ""] : S \in SUBSET EnvKeys}

\* the required keys a well-formed payload of each tool carries
ProvidedKeys(h) ==
    CASE h = LokiQuery -> {"query"}
      [] h = LokiLabelNames -> {}
      [] h = LokiLabelValues -> {"label"}

RequiredFields(h) ==
    [ZeroReq EXCEPT !.Query = IF h = LokiQuery THEN "{job=app}" ELSE "",
                    !.Label = IF h = LokiLabelValues THEN "job" ELSE ""]

StartExprs == {EmptyStr, Now, Minus5m, Minus2h, Minus30s, Minus1d, Plain5m, Jan2At2}
EndExprs == {EmptyStr, Now, Minus2h, Tomorrow, Jan2At2}
\* absent, a fraction below 1, a fraction above 1, five, minus one
LimitArgs(h) ==
    IF h = LokiQuery THEN {0, 1, LimitScale + 1, 5 * LimitScale, -LimitScale} ELSE {0}
FormatArgs == {"", "json", "xml"}

\* payloads that do not decode
BadRaws(h) ==
    {[json |-> FALSE, keys |-> ProvidedKeys(h), fields |-> RequiredFields(h)]}
    \cup (IF ProvidedKeys(h) = {} THEN {}
          ELSE {[json |-> TRUE, keys |-> {}, fields |-> ZeroReq]})

\* payloads exercising the time range, the limit, the format and the base URL
PipelineRaws(h) ==
    {[json |-> TRUE, keys |-> ProvidedKeys(h),
      fields |-> [RequiredFields(h) EXCEPT !.URL = u, !.Start = s, !.End = e,
                                           !.Limit = l, !.Format = f]] :
        u \in {"", MalformedURL}, s \in StartExprs, e \in EndExprs,
        l \in LimitArgs(h), f \in FormatArgs}

\* payloads exercising the configuration fields
ConfigRaws(h) ==
    {[json |-> TRUE, keys |-> ProvidedKeys(h),
      fields |-> [RequiredFields(h) EXCEPT !.URL = u, !.Username = n, !.Password = p,
                                           !.Token = t, !.Org = o]] :
        u \in {"", "http://arg:3100"}, n \in {"", "alice"}, p \in {"", "secret"},
        t \in {"", "tok"}, o \in {"", "tenant-123"}}

\* one invocation is delivered; the other slot stays unused
Init ==
    /\ client = ClientOff
    /\ server = ServerOff
    /\ env = UnsetEnv
    /\ clock \in {ClockBase, ClockBase + 1}
    /\ \E h \in Handlers : \E raw \in BadRaws(h) \cup PipelineRaws(h) :
         inv = [i \in Invs |-> IF i = 1 THEN NewInvocation("pending", h, raw) ELSE Absent]

Spec == Init /\ [][Next]_vars

\* one invocation, over every environment and every configuration argument
InitConfig ==
    /\ client = ClientOff
    /\ server = ServerOff
    /\ env \in Envs
    /\ clock = ClockBase + MaxTicks - 1
    /\ \E h \in Handlers : \E raw \in ConfigRaws(h) :
         inv = [i \in Invs |-> IF i = 1 THEN NewInvocation("pending", h, raw) ELSE Absent]

SpecConfig == InitConfig /\ [][Next]_vars

\* calls that differ in handler, credentials, org id, base URL and time range
ConcCalls ==
    {[handler |-> LokiQuery,
      raw |-> [json |-> TRUE, keys |-> ProvidedKeys(LokiQuery),
               fields |-> [RequiredFields(LokiQuery) EXCEPT
                             !.Token = "tok", !.Org = "tenant-123", !.Start = Minus5m]]],
     [handler |-> LokiLabelValues,
      raw |-> [json |-> TRUE, keys |-> ProvidedKeys(LokiLabelValues),
               fields |-> [RequiredFields(LokiLabelValues) EXCEPT
                             !.URL = "http://arg:3100", !.Username = "alice",
                             !.Password = "secret", !.End = Now]]],
     [handler |-> LokiLabelNames,
      raw |-> [json |-> TRUE, keys |-> ProvidedKeys(LokiLabelNames),
               fields |-> RequiredFields(LokiLabelNames)]],
     [handler |-> LokiQuery,
      raw |-> [json |-> TRUE, keys |-> ProvidedKeys(LokiQuery),
               fields |-> [RequiredFields(LokiQuery) EXCEPT
                             !.URL = MalformedURL, !.Org = "tenant-9", !.Format = "xml"]]]}

\* two invocations are delivered together; their steps interleave freely
InitConc ==
    /\ client = ClientOff
    /\ server = ServerOff
    /\ env \in {UnsetEnv, SetEnv}
    /\ clock = ClockBase + MaxTicks - 1
    /\ \E c1 \in ConcCalls : \E c2 \in ConcCalls :
         inv = [i \in Invs |-> IF i = 1 THEN NewInvocation("pending", c1.handler, c1.raw)
                               ELSE NewInvocation("pending", c2.handler, c2.raw)]

SpecConc == InitConc /\ [][Next]_vars

\* command lines of the client
FlagURL == <<"http://flag-server:9000/api">>
OtherFlagURL == <<"http://other:7000">>
EnvURL == <<"http://env-server:8000/mcp">>

\* a Loki address, a LogQL query, numbers, a tenant
LokiAddress == <<"http", "://localhost:3100">>
QueryText == <<"{job=\"varlogs\"}">>
Hundred == <<"1", "0", "0">>
Half == <<"0", ".", "5">>
Tenant == <<"tenant-123">>

\* the invocation the README gives for multi-tenant setups: the query, five
\* empty arguments, the org
ReadmeOrgArgs == << <<"loki_query">>, QueryText, <<>>, <<>>, <<>>, <<>>, <<>>, Tenant >>

CommandLines ==
    {ReadmeOrgArgs,
     << <<"loki_query">>, QueryText >>,
     << <<"loki_query">>, QueryText, Minus2h, Now, Hundred, Tenant >>,
     << <<"loki_query">>, QueryText, Minus2h, Now, Half >>,
     << <<"loki_query">>, QueryText, <<>>, <<>>, <<"-", "1">>, Tenant >>,
     << <<"loki_query">>, QueryText, Minus2h, Now, <<"a", "b", "c">> >>,
     << <<"loki_query">>, LokiAddress, QueryText, Minus2h, Now, Hundred, Tenant >>,
     << <<"loki_query">>, LokiAddress >>,
     << <<"-", "-", "server-url">>, FlagURL, <<"loki_query">>, QueryText >>,
     << <<"loki_label_names">> >>,
     << <<"loki_label_names">>, LokiAddress >>,
     << <<"loki_label_values">> >>,
     << <<"loki_label_values">>, <<"job">>, LokiAddress >>,
     << <<"list_tools">> >>,
     << <<"bogus">> >>}

ArgLists ==
    {<<>>,
     << <<"-", "-", "server-url">>, FlagURL >>,
     << <<"-", "-", "server-url", "=">> \o FlagURL >>,
     << <<"-", "server-url">>, FlagURL, <<"loki_query">> >>,
     << <<"-", "-", "server-url", "=">> >>,
     << <<"-", "-", "server-url">> >>,
     << <<"loki_query">>, <<"-", "-", "server-url">>, FlagURL >>,
     << <<"-", "-">>, <<"-", "-", "server-url">>, FlagURL >>,
     << <<"-", "-", "verbose">>, <<"-", "-", "server-url">>, FlagURL >>,
     << <<"-", "-", "server-url">>, FlagURL, <<"-", "-", "server-url", "=">> \o OtherFlagURL >>,
     << <<"-", "-", "server-url">>, <<"-", "-", "server-url", "=">> \o OtherFlagURL >>,
     << <<"-", "-", "server-url", "=">> \o FlagURL, <<"-", "-", "server-url", "=">> >>}
    \cup CommandLines

\* values of LOKI_QUERY_TIMEOUT: unset, 60, 0, -5, +7, abc, 10s
TimeoutTexts ==
    {<<>>, <<"6", "0">>, <<"0">>, <<"-", "5">>, <<"+", "7">>,
     <<"a", "b", "c">>, <<"1", "0", "s">>}

\* the client starts with some command line in some environment
InitClient ==
    /\ env = UnsetEnv
    /\ server = ServerOff
    /\ clock = ClockBase
    /\ inv = [i \in Invs |-> Absent]
    /\ \E args \in ArgLists : \E u \in {<<>>, EnvURL} : \E t \in TimeoutTexts :
         client = NewClient("start", args, [MCP_SERVER_URL |-> u, LOKI_QUERY_TIMEOUT |-> t])

SpecClient == InitClient /\ [][NextClient]_vars

\* environments of the server: every LOKI_* variable unset or set, the
\* password and the token set to either of two values
SecretValues == {"hunter2", "s3cr3t"}

ServerEnvs ==
    {[k \in EnvKeys |->
        CASE k = EnvLokiPassword -> p
          [] k = EnvLokiToken -> t
          [] OTHER -> IF k \in S THEN SetEnv[k] ELSE ""] :
       S \in SUBSET {EnvLokiURL, EnvLokiUsername, EnvLokiOrgID},
       p \in SecretValues \cup {""}, t \in SecretValues \cup {""}}

\* the server is started in some environment
InitServer ==
    /\ env \in ServerEnvs
    /\ clock = ClockBase
    /\ inv = [i \in Invs |-> Absent]
    /\ client = ClientOff
    /\ \E port \in {"", "9000"} : \E host \in {"", "127.0.0.1"} :
         server = NewServerProcess("start", [PORT |-> port, HOST |-> host])

SpecServer == InitServer /\ [][NextServer]_vars

TypeOK ==
    /\ clock \in ClockBase..(ClockBase + MaxTicks)
    /\ \A i \in Invs : inv[i].pc \in {"absent", "pending", "config", "defaultStart",
                                      "defaultEnd", "start", "end", "options", "build",
                                      "execute", "format", "done"}

----------------------------------------------------------------------------
(* What happened in an invocation, read off the calls it made *)

Done(v) == v.pc = "done"

Last(s) == s[Len(s)]

DecodeErr(v) ==
    IF v.pc \in {"absent", "pending"} THEN Nil
    ELSE VerifyAndUnmarshal(v.handler, v.raw).err

Unparsable(expr) == expr # EmptyStr /\ parseTime(expr, 0).err # Nil

BuildErr(v) == IF v.built = <<>> THEN Nil ELSE buildURL(v.handler, Last(v.built)).err

ExecErr(v) == IF v.answers = <<>> THEN Nil ELSE executeLoki(Last(v.answers)).err

FormatErr(v) ==
    IF v.formatted = <<>> THEN Nil
    ELSE formatLoki(v.handler, Last(v.formatted).result, Last(v.formatted).format).err

\* the first step of the pipeline that failed, "" when none has
FailedStage(v) ==
    IF DecodeErr(v) # Nil THEN "decode"
    ELSE IF v.pc \notin {"absent", "pending", "config", "defaultStart", "defaultEnd", "start"}
            /\ Unparsable(v.req.Start) THEN "start"
    ELSE IF v.pc \notin {"absent", "pending", "config", "defaultStart", "defaultEnd", "start", "end"}
            /\ Unparsable(v.req.End) THEN "end"
    ELSE IF BuildErr(v) # Nil THEN "build"
    ELSE IF ExecErr(v) # Nil THEN "execute"
    ELSE IF FormatErr(v) # Nil THEN "format"
    ELSE ""

----------------------------------------------------------------------------
(* C1: for each of the five configuration fields, the value the handler    *)
(* resolves is the explicit argument when that is non-empty, otherwise the *)
(* environment variable's value when that is non-empty, otherwise the      *)
(* fallback; an explicit value wins over a set environment variable.       *)
ConfigFields == {"URL", "Username", "Password", "Token", "Org"}

Explicit(v, f) ==
    CASE f = "URL" -> v.req.URL [] f = "Username" -> v.req.Username
      [] f = "Password" -> v.req.Password [] f = "Token" -> v.req.Token
      [] f = "Org" -> v.req.Org

EnvKeyOf(f) ==
    CASE f = "URL" -> "LOKI_URL" [] f = "Username" -> "LOKI_USERNAME"
      [] f = "Password" -> "LOKI_PASSWORD" [] f = "Token" -> "LOKI_TOKEN"
      [] f = "Org" -> "LOKI_ORG_ID"

FallbackOf(f) == IF f = "URL" THEN "http://localhost:3100" ELSE ""

Resolved(v, f) ==
    CASE f = "URL" -> v.lokiURL [] f = "Username" -> v.username
      [] f = "Password" -> v.password [] f = "Token" -> v.token
      [] f = "Org" -> v.orgID

ConfigResolved(v) == v.pc \notin {"absent", "pending", "config"} /\ DecodeErr(v) = Nil

C1_ConfigPrecedence ==
    \A i \in Invs : \A f \in ConfigFields :
        ConfigResolved(inv[i]) =>
            /\ Explicit(inv[i], f) # "" => Resolved(inv[i], f) = Explicit(inv[i], f)
            /\ Explicit(inv[i], f) = "" /\ env[EnvKeyOf(f)] # ""
                   => Resolved(inv[i], f) = env[EnvKeyOf(f)]
            /\ Explicit(inv[i], f) = "" /\ env[EnvKeyOf(f)] = ""
                   => Resolved(inv[i], f) = FallbackOf(f)

\* an explicit URL has won over a set LOKI_URL, and a set LOKI_TOKEN has filled an absent token
C1_Witness ==
    \E i \in Invs :
        /\ ConfigResolved(inv[i])
        /\ inv[i].req.URL = "http://arg:3100" /\ env["LOKI_URL"] = "http://env:3100"
        /\ inv[i].lokiURL = "http://arg:3100"
        /\ inv[i].req.Token = "" /\ inv[i].token = "envtoken"
        /\ inv[i].req.Org = "" /\ env["LOKI_ORG_ID"] = "" /\ inv[i].orgID = ""

----------------------------------------------------------------------------
(* C2: in each handler a failure at a pipeline step aborts all later       *)
(* steps: after a decode failure nothing is called, after a time-parse or  *)
(* URL-build failure no backend call is issued, and after a backend-call   *)
(* failure the formatter is never invoked.                                 *)
C2_FailureAborts ==
    \A i \in Invs :
        LET v == inv[i]
            stage == FailedStage(v)
        IN  /\ stage = "decode" =>
                   v.parsed = <<>> /\ v.built = <<>> /\ v.sent = <<>> /\ v.formatted = <<>>
            /\ stage = "start" =>
                   Len(v.parsed) = 1 /\ v.built = <<>> /\ v.sent = <<>> /\ v.formatted = <<>>
            /\ stage = "end" => v.built = <<>> /\ v.sent = <<>> /\ v.formatted = <<>>
            /\ stage = "build" => v.sent = <<>> /\ v.formatted = <<>>
            /\ stage = "execute" => v.formatted = <<>>
            /\ stage # "" => Done(v)

\* a backend call has failed and the handler has returned without formatting
C2_Witness ==
    \E i \in Invs :
        /\ Done(inv[i]) /\ FailedStage(inv[i]) = "execute"
        /\ Len(inv[i].sent) = 1 /\ inv[i].formatted = <<>>

\* somewhere a URL build has failed and no request has gone out
C2_WitnessBuild ==
    \E i \in Invs :
        /\ Done(inv[i]) /\ FailedStage(inv[i]) = "build"
        /\ Len(inv[i].built) = 1 /\ inv[i].sent = <<>>

----------------------------------------------------------------------------
(* C3: an invocation that has ended returned either a result with exactly  *)
(* one text content block holding the formatter's output and a nil error,  *)
(* or a nil result and a non-nil error; never both, never neither, and     *)
(* never a result after a step failed.                                     *)
IsSuccess(v) ==
    /\ v.ret.err = Nil
    /\ v.ret.result # Nil
    /\ Len(v.ret.result[1].Content) = 1
    /\ v.ret.result[1].Content[1].Type = "text"
    /\ v.formatted # <<>>
    /\ v.ret.result[1].Content[1].Text = Last(v.formatted).text

IsFailure(v) == v.ret.result = Nil /\ v.ret.err # Nil

C3_ResultXorError ==
    \A i \in Invs :
        /\ Done(inv[i]) =>
              /\ IsSuccess(inv[i]) \/ IsFailure(inv[i])
              /\ IsSuccess(inv[i]) <=> FailedStage(inv[i]) = ""
        /\ ~Done(inv[i]) => inv[i].ret = NoReturn

\* an invocation has succeeded with the formatter's text in its single block
C3_Witness ==
    \E i \in Invs :
        /\ Done(inv[i]) /\ IsSuccess(inv[i])
        /\ inv[i].ret.result[1].Content[1].Text = <<LokiQuery, "json", BodyStreams>>

----------------------------------------------------------------------------
(* C4: an invocation issues at most one backend call; a failed call is not *)
(* retried, whatever the failure.                                          *)
C4_AtMostOneCall ==
    \A i \in Invs :
        /\ Len(inv[i].sent) <= 1
        /\ ExecErr(inv[i]) # Nil => Done(inv[i]) /\ Len(inv[i].sent) = 1

\* a backend call has failed on the network and the invocation is over
C4_Witness ==
    \E i \in Invs :
        /\ Done(inv[i]) /\ Len(inv[i].sent) = 1
        /\ Last(inv[i].answers).kind = "unreachable"

----------------------------------------------------------------------------
(* C5: when a supplied start or end expression cannot be parsed, the       *)
(* invocation fails with an error and the default range value is not       *)
(* substituted: nothing is handed to the URL builder.                      *)
PastStart(v) == v.pc \in {"end", "options", "build", "execute", "format", "done"}
PastEnd(v) == v.pc \in {"options", "build", "execute", "format", "done"}

C5_InvalidTimeIsError ==
    \A i \in Invs :
        LET v == inv[i]
        IN  /\ PastStart(v) /\ Unparsable(v.req.Start) =>
                   Done(v) /\ IsFailure(v) /\ v.built = <<>>
            /\ PastEnd(v) /\ Unparsable(v.req.End) =>
                   Done(v) /\ IsFailure(v) /\ v.built = <<>>

\* "5m" as start has ended a label-values invocation with an error
C5_Witness ==
    \E i \in Invs :
        /\ inv[i].handler = LokiLabelValues /\ inv[i].req.Start = Plain5m
        /\ Done(inv[i]) /\ IsFailure(inv[i]) /\ inv[i].parsed = <<Plain5m>>

\* "tomorrow" as end has ended an invocation whose start was resolved
C5_WitnessEnd ==
    \E i \in Invs :
        /\ inv[i].req.Start = Minus5m /\ inv[i].req.End = Tomorrow
        /\ Done(inv[i]) /\ IsFailure(inv[i]) /\ inv[i].parsed = <<Minus5m, Tomorrow>>

----------------------------------------------------------------------------
(* C6: for a label-values invocation with start "-5m" and end "now", the   *)
(* start handed to the URL builder is exactly 300 seconds before the end,  *)
(* whenever the invocation runs.                                           *)
C6_Exactly300Seconds ==
    \A i \in Invs :
        /\ inv[i].handler = LokiLabelValues
        /\ inv[i].req.Start = Minus5m /\ inv[i].req.End = Now
        /\ inv[i].built # <<>>
        => inv[i].built[1].start = inv[i].built[1].end - 300

----------------------------------------------------------------------------
(* C7: when neither start nor end is supplied, the start handed to the URL *)
(* builder is the end minus 3600 seconds, in every handler.                *)
C7_DefaultRangeOneHour ==
    \A i \in Invs :
        /\ inv[i].req.Start = EmptyStr /\ inv[i].req.End = EmptyStr
        /\ inv[i].built # <<>>
        => inv[i].built[1].start = inv[i].built[1].end - 3600

----------------------------------------------------------------------------
(* C8: the outbound request carries the bearer token alone whenever a      *)
(* token is in effect (from the argument or LOKI_TOKEN), basic credentials *)
(* only when no token is in effect and a username is, and no authorization *)
(* when neither is; the credentials in effect are those of the arguments,  *)
(* else of the environment.                                                *)
InEffect(v, f) == IF Explicit(v, f) # "" THEN Explicit(v, f) ELSE env[EnvKeyOf(f)]

C8_TokenOverBasic ==
    \A i \in Invs : \A k \in 1..Len(inv[i].sent) :
        LET v == inv[i]
            auth == v.sent[k].authorization
        IN  /\ InEffect(v, "Token") # "" => auth = <<"Bearer", InEffect(v, "Token")>>
            /\ InEffect(v, "Token") = "" /\ InEffect(v, "Username") # ""
                   => auth = <<"Basic", InEffect(v, "Username"), InEffect(v, "Password")>>
            /\ InEffect(v, "Token") = "" /\ InEffect(v, "Username") = "" => auth = <<>>

\* a request went out with the argument's token while LOKI_USERNAME and LOKI_PASSWORD were set
C8_Witness ==
    \E i \in Invs :
        /\ inv[i].req.Token = "tok" /\ inv[i].req.Username = "alice"
        /\ inv[i].req.Password = "secret"
        /\ env["LOKI_USERNAME"] = "envuser" /\ env["LOKI_PASSWORD"] = "envpass"
        /\ Len(inv[i].sent) = 1
        /\ inv[i].sent[1].authorization = <<"Bearer", "tok">>

----------------------------------------------------------------------------
(* C9: when the backend answers with a non-2xx status, the handler returns *)
(* an error whose message carries that status and the response body, and   *)
(* no result.                                                              *)
C9_HTTPErrorSurfaced ==
    \A i \in Invs :
        LET v == inv[i]
        IN  /\ v.answers # <<>>
            /\ Last(v.answers).kind = "response"
            /\ ~(Last(v.answers).status \in 200..299)
            => /\ Done(v) /\ IsFailure(v)
               /\ ToString(Last(v.answers).status) \in Range(v.ret.err)
               /\ Last(v.answers).body \in Range(v.ret.err)

\* status 500 with body "internal error" has come back as an error
C9_Witness ==
    \E i \in Invs :
        /\ inv[i].answers = <<[kind |-> "response", status |-> 500, body |-> "internal error"]>>
        /\ Done(inv[i]) /\ IsFailure(inv[i])
        /\ "500" \in Range(inv[i].ret.err) /\ "internal error" \in Range(inv[i].ret.err)

----------------------------------------------------------------------------
(* C10: the error a handler returns tells the failed stage: a time-parse,  *)
(* URL-build, backend-call or formatting failure carries a text of its own *)
(* stage in front of the underlying message, and an argument-decode        *)
(* failure is the decoder's error itself.                                  *)
StageOfText(p) ==
    IF p \in {"invalid start time: ", "invalid end time: "} THEN "time parse"
    ELSE IF p \in {"failed to build query URL: ", "failed to build labels URL: ",
                   "failed to build label values URL: "} THEN "URL build"
    ELSE IF p \in {"query execution failed: ", "labels query execution failed: ",
                   "label values query execution failed: "} THEN "backend call"
    ELSE IF p = "failed to format results: " THEN "formatting"
    ELSE "none"

StageName(stage) ==
    CASE stage \in {"start", "end"} -> "time parse"
      [] stage = "build" -> "URL build"
      [] stage = "execute" -> "backend call"
      [] stage = "format" -> "formatting"

C10_ErrorNamesStage ==
    \A i \in Invs :
        LET v == inv[i]
            stage == FailedStage(v)
        IN  Done(v) /\ v.ret.err # Nil =>
               /\ stage # ""
               /\ stage = "decode" => v.ret.err = DecodeErr(v)
               /\ stage # "decode" =>
                      /\ StageOfText(Head(v.ret.err)) = StageName(stage)
                      /\ Len(v.ret.err) > 1
               /\ stage = "start" => Head(v.ret.err) = "invalid start time: "
               /\ stage = "end" => Head(v.ret.err) = "invalid end time: "

\* a malformed base URL has ended a label-names invocation with the URL-build text
C10_Witness ==
    \E i \in Invs :
        /\ inv[i].handler = LokiLabelNames /\ Done(inv[i])
        /\ FailedStage(inv[i]) = "build"
        /\ inv[i].ret.err = <<"failed to build labels URL: ", "malformed base URL">>

----------------------------------------------------------------------------
(* C11: a payload that lacks the required field (query for loki_query,     *)
(* label for loki_label_values) or does not match the schema ends the      *)
(* invocation with the decoder's error before any configuration is         *)
(* resolved, any time is parsed, any URL is built or any request is sent;  *)
(* loki_label_names requires nothing and accepts an empty object.          *)
LacksRequired(v) ==
    \/ v.handler = "loki_query" /\ "query" \notin v.raw.keys
    \/ v.handler = "loki_label_values" /\ "label" \notin v.raw.keys

NothingResolved(v) ==
    /\ v.lokiURL = "" /\ v.username = "" /\ v.password = "" /\ v.token = "" /\ v.orgID = ""
    /\ v.reads = <<>> /\ v.parsed = <<>> /\ v.built = <<>> /\ v.sent = <<>>
    /\ v.formatted = <<>>

C11_DecodeFailsFirst ==
    \A i \in Invs :
        LET v == inv[i]
        IN  /\ v.pc \notin {"absent", "pending"} /\ (~v.raw.json \/ LacksRequired(v)) =>
                   /\ Done(v) /\ IsFailure(v)
                   /\ v.trace = <<"Decode">>
                   /\ NothingResolved(v)
            /\ v.pc \notin {"absent", "pending"} /\ v.handler = "loki_label_names"
               /\ v.raw.json =>
                   v.trace # <<"Decode">> \/ v.pc = "config"

\* a loki_query payload without query has been refused
C11_Witness ==
    \E i \in Invs :
        /\ inv[i].handler = "loki_query" /\ inv[i].raw.json /\ inv[i].raw.keys = {}
        /\ Done(inv[i]) /\ IsFailure(inv[i]) /\ NothingResolved(inv[i])

\* a loki_label_names invocation with an empty object has succeeded
C11_WitnessEmptyObject ==
    \E i \in Invs :
        /\ inv[i].handler = "loki_label_names" /\ inv[i].raw.keys = {}
        /\ inv[i].raw.fields = ZeroReq
        /\ Done(inv[i]) /\ IsSuccess(inv[i])

----------------------------------------------------------------------------
(* C12: in the query handler the limit handed to the URL builder is 100    *)
(* when the limit argument is absent, zero or negative, and is the         *)
(* supplied limit when that is a positive number.                          *)
C12_LimitAsSupplied ==
    \A i \in Invs : \A k \in 1..Len(inv[i].built) :
        inv[i].handler = "loki_query" =>
            /\ inv[i].req.Limit <= 0 => inv[i].built[k].limit = 100
            /\ inv[i].req.Limit > 0 => inv[i].built[k].limit * LimitScale = inv[i].req.Limit

(* C12, amended: the limit handed to the URL builder is 100 when the limit *)
(* argument is absent, zero or negative, and is the whole part of the      *)
(* supplied limit when that is positive (the supplied limit itself when it *)
(* is a whole number).                                                     *)
C12_LimitWholePart ==
    \A i \in Invs : \A k \in 1..Len(inv[i].built) :
        inv[i].handler = "loki_query" =>
            /\ inv[i].req.Limit <= 0 => inv[i].built[k].limit = 100
            /\ inv[i].req.Limit > 0 =>
                   /\ inv[i].built[k].limit * LimitScale <= inv[i].req.Limit
                   /\ inv[i].req.Limit < (inv[i].built[k].limit + 1) * LimitScale

\* a limit of five and a limit between one and two have reached the URL builder
C12_Witness ==
    \E i \in Invs :
        /\ inv[i].handler = "loki_query" /\ inv[i].built # <<>>
        /\ inv[i].req.Limit = LimitScale + 1 /\ inv[i].built[1].limit = 1

\* a negative limit has been replaced by 100
C12_WitnessDefault ==
    \E i \in Invs :
        /\ inv[i].handler = "loki_query" /\ inv[i].built # <<>>
        /\ inv[i].req.Limit < 0 /\ inv[i].built[1].limit = 100

----------------------------------------------------------------------------
(* C13: in every handler the format handed to the formatter is the         *)
(* supplied format when that is non-empty and raw otherwise; a supplied    *)
(* format other than raw, json and text is never replaced by the default   *)
(* and the invocation ends in an error.                                    *)
Unrecognised(format) == format \notin {"", "raw", "json", "text"}

C13_FormatPassedOn ==
    \A i \in Invs :
        LET v == inv[i]
        IN  /\ \A k \in 1..Len(v.formatted) :
                   v.formatted[k].format = IF v.req.Format # "" THEN v.req.Format ELSE "raw"
            /\ Done(v) /\ Unrecognised(v.req.Format) => IsFailure(v)

\* the format xml has reached the formatter of the label-values handler and ended in an error
C13_Witness ==
    \E i \in Invs :
        /\ inv[i].handler = "loki_label_values" /\ inv[i].req.Format = "xml"
        /\ Len(inv[i].formatted) = 1 /\ inv[i].formatted[1].format = "xml"
        /\ Done(inv[i]) /\ IsFailure(inv[i])
        /\ inv[i].ret.err = <<"failed to format results: ", "unsupported format: ", "xml">>

\* an absent format has reached the formatter as raw
C13_WitnessDefault ==
    \E i \in Invs :
        /\ inv[i].req.Format = "" /\ Len(inv[i].formatted) = 1
        /\ inv[i].formatted[1].format = "raw" /\ IsSuccess(inv[i])

----------------------------------------------------------------------------
(* C14: the steps of an invocation occur in the fixed order decode,        *)
(* configuration, time range (start, then end), URL build, backend call,   *)
(* formatting and wrapping; none starts before the one before it is over,  *)
(* none is taken twice, and a successful invocation has taken them all.    *)
PipelineOrder ==
    <<"Decode", "ResolveConfig", "DefaultStart", "DefaultEnd", "ResolveStart",
      "ResolveEnd", "Options", "BuildURL", "Execute", "FormatAndWrap">>

IsPrefix(s, t) == Len(s) <= Len(t) /\ SubSeq(t, 1, Len(s)) = s

C14_FixedOrder ==
    \A i \in Invs :
        LET v == inv[i]
        IN  /\ IsPrefix(v.trace, PipelineOrder)
            /\ Len(v.built) <= 1 /\ Len(v.sent) <= 1 /\ Len(v.formatted) <= 1
            /\ v.parsed # <<>> => "ResolveConfig" \in Range(v.trace)
            /\ v.built # <<>> => "ResolveEnd" \in Range(v.trace)
            /\ v.sent # <<>> => v.built # <<>>
            /\ v.formatted # <<>> => v.sent # <<>>
            /\ Done(v) /\ v.ret.result # Nil =>
                   /\ v.trace = PipelineOrder
                   /\ Len(v.built) = 1 /\ Len(v.sent) = 1 /\ Len(v.formatted) = 1

\* an invocation with both bounds supplied has succeeded after all ten steps
C14_Witness ==
    \E i \in Invs :
        /\ Done(inv[i]) /\ IsSuccess(inv[i])
        /\ inv[i].trace = PipelineOrder
        /\ inv[i].parsed = <<Minus5m, Now>>

----------------------------------------------------------------------------
(* C16: the order of the resolved range is not validated: an invocation    *)
(* whose resolved start is later than its resolved end is not failed for   *)
(* it, hands both values unchanged to the URL builder, and sends the URL   *)
(* built from them to the backend.                                         *)
TimesResolved(v) == "ResolveEnd" \in Range(v.trace) /\ v.failedAt \notin {"start", "end"}

Inverted(v) == TimesResolved(v) /\ v.start > v.end

C16_InvertedRangeProceeds ==
    \A i \in Invs :
        LET v == inv[i]
        IN  Inverted(v) =>
              /\ v.failedAt \in {"", "build", "execute", "format"}
              /\ v.failedAt = "build" => ~UrlParses(v.lokiURL)
              /\ v.built # <<>> =>
                   /\ v.built[1].start = v.start /\ v.built[1].end = v.end
                   /\ v.built[1].start > v.built[1].end
              /\ v.sent # <<>> =>
                   /\ v.sent[1].url = buildURL(v.handler, v.built[1]).url
                   /\ v.sent[1].url[1].start = buildURL(v.handler,
                          [v.built[1] EXCEPT !.start = v.start, !.end = v.end]).url[1].start
              /\ Done(v) /\ UrlParses(v.lokiURL) => Len(v.sent) = 1

\* start "now" and end "-2h": the request went out and the invocation succeeded
C16_Witness ==
    \E i \in Invs :
        /\ Inverted(inv[i])
        /\ inv[i].req.Start = Now /\ inv[i].req.End = Minus2h
        /\ Len(inv[i].sent) = 1
        /\ Done(inv[i]) /\ IsSuccess(inv[i])

----------------------------------------------------------------------------
(* C17: the resolver is called with non-empty strings only: an invocation  *)
(* whose start (end) argument is absent or empty makes no resolver call    *)
(* for it and keeps the default of that bound, one hour before the clock   *)
(* read for the start and the clock read for the end.                      *)
NonEmptyOf(s) == SelectSeq(s, LAMBDA x : x # EmptyStr)

StartStepTaken(v) == "ResolveStart" \in Range(v.trace)
EndStepTaken(v) == "ResolveEnd" \in Range(v.trace)

C17_ResolverNeverGetsEmpty ==
    \A i \in Invs :
        LET v == inv[i]
        IN  /\ \A k \in 1..Len(v.parsed) : v.parsed[k] # EmptyStr
            /\ StartStepTaken(v) /\ v.failedAt # "start" =>
                   v.parsed = NonEmptyOf(IF EndStepTaken(v) THEN <<v.req.Start, v.req.End>>
                                         ELSE <<v.req.Start>>)
            /\ StartStepTaken(v) /\ v.req.Start = EmptyStr =>
                   /\ v.failedAt # "start"
                   /\ v.start = Unix(v.reads[1] - HourSecs * TicksPerSec)
            /\ EndStepTaken(v) /\ v.req.End = EmptyStr =>
                   /\ v.failedAt # "end"
                   /\ v.end = Unix(v.reads[2])
                   /\ Len(v.reads) = 2 + Len(v.parsed)

\* a request went out with neither bound supplied and no resolver call made
C17_Witness ==
    \E i \in Invs :
        /\ inv[i].req.Start = EmptyStr /\ inv[i].req.End = EmptyStr
        /\ inv[i].parsed = <<>>
        /\ Len(inv[i].sent) = 1
        /\ inv[i].built[1].end = Unix(inv[i].reads[2])

\* the start was resolved from "-5m" and the absent end kept its default
C17_WitnessOneBound ==
    \E i \in Invs :
        /\ inv[i].req.Start = Minus5m /\ inv[i].req.End = EmptyStr
        /\ inv[i].parsed = <<Minus5m>>
        /\ Len(inv[i].built) = 1
        /\ inv[i].built[1].end = Unix(inv[i].reads[2])

----------------------------------------------------------------------------
(* C19: a relative expression -<n><unit> resolves to the reference time    *)
(* minus n times the length of the unit in seconds (1, 60, 3600, 86400),   *)
(* and "now" resolves to the reference time itself; the reference time is  *)
(* the clock at the resolver call.                                         *)
RelativeExprs == {Minus30s, Minus5m, Minus2h, Minus1d}

\* n times the length of the unit, written out for each expression
OffsetSecs(expr) ==
    CASE expr = Now -> 0
      [] expr = Minus30s -> 30 * 1
      [] expr = Minus5m -> 5 * 60
      [] expr = Minus2h -> 2 * 3600
      [] expr = Minus1d -> 1 * 86400

\* the clock read by the resolver call for the start and for the end
StartRead(v) == v.reads[3]
EndRead(v) == v.reads[Len(v.reads)]

C19_RelativeOffsets ==
    /\ \A expr \in RelativeExprs \cup {Now} :
         \A T \in ClockBase..(ClockBase + MaxTicks) :
            LET r == parseTime(expr, T)
            IN  r.err = Nil /\ r.t = T - OffsetSecs(expr) * TicksPerSec
    /\ \A i \in Invs :
        LET v == inv[i]
        IN  /\ StartStepTaken(v) /\ v.req.Start \in RelativeExprs \cup {Now} =>
                   /\ v.failedAt # "start"
                   /\ v.start = Unix(StartRead(v) - OffsetSecs(v.req.Start) * TicksPerSec)
                   /\ v.start = Unix(StartRead(v)) - OffsetSecs(v.req.Start)
            /\ EndStepTaken(v) /\ v.req.End \in RelativeExprs \cup {Now} =>
                   /\ v.failedAt # "end"
                   /\ v.end = Unix(EndRead(v)) - OffsetSecs(v.req.End)

\* "-1d" was resolved a tick after the defaults were taken, a second later
C19_Witness ==
    \E i \in Invs :
        /\ inv[i].req.Start = Minus1d
        /\ Len(inv[i].built) = 1
        /\ Unix(StartRead(inv[i])) > Unix(inv[i].reads[1])
        /\ inv[i].built[1].start = Unix(StartRead(inv[i])) - 86400

C19_WitnessSeconds ==
    \E i \in Invs :
        /\ inv[i].req.Start = Minus30s /\ inv[i].req.End = Now
        /\ Len(inv[i].built) = 1
        /\ inv[i].built[1].start = Unix(StartRead(inv[i])) - 30
        /\ inv[i].built[1].end = Unix(EndRead(inv[i]))

----------------------------------------------------------------------------
(* C18: the URL built for each of the three operations carries, in its     *)
(* start and end parameters, the seconds the handler passed to the URL     *)
(* builder multiplied by 1,000,000,000: the decimal text of the parameter  *)
(* ends in nine zeros and what stands before them is the seconds value.    *)
EndsInNineZeros(p) ==
    /\ Len(p) > 9
    /\ \A k \in (Len(p) - 8)..Len(p) : p[k] = "0"
    /\ \A k \in 1..(Len(p) - 9) : p[k] \in Digits
    /\ p[1] # "0"

\* the unsigned text p is secs * 1000000000, for secs above zero
IsProductOf(p, secs) == EndsInNineZeros(p) /\ ParseInt(SubSeq(p, 1, Len(p) - 9)) = secs

\* the parameter p is secs * 1000000000
IsNanosOf(p, secs) ==
    IF secs = 0 THEN p = <<"0">>
    ELSE IF secs < 0 THEN p # <<>> /\ p[1] = "-" /\ IsProductOf(Tail(p), -secs)
    ELSE IsProductOf(p, secs)

C18_NanosecondsInURL ==
    \A i \in Invs :
        LET v == inv[i]
        IN  v.url # Nil =>
              /\ Len(v.built) = 1
              /\ IsNanosOf(v.url[1].start, v.built[1].start)
              /\ IsNanosOf(v.url[1].end, v.built[1].end)
              /\ \A k \in 1..Len(v.sent) :
                   /\ IsNanosOf(v.sent[k].url[1].start, v.built[1].start)
                   /\ IsNanosOf(v.sent[k].url[1].end, v.built[1].end)

\* a query URL with distinct bounds went out
C18_Witness ==
    \E i \in Invs :
        /\ inv[i].handler = LokiQuery
        /\ Len(inv[i].sent) = 1
        /\ inv[i].built[1].start # inv[i].built[1].end
        /\ IsNanosOf(inv[i].sent[1].url[1].start, inv[i].built[1].start)
        /\ inv[i].sent[1].url[1].path = QueryRangePath

C18_WitnessLabels ==
    \E i \in Invs :
        /\ inv[i].handler = LokiLabelNames
        /\ Len(inv[i].sent) = 1
        /\ inv[i].built[1].start # inv[i].built[1].end
        /\ IsNanosOf(inv[i].sent[1].url[1].end, inv[i].built[1].end)

C18_WitnessLabelValues ==
    \E i \in Invs :
        /\ inv[i].handler = LokiLabelValues
        /\ Len(inv[i].sent) = 1
        /\ inv[i].built[1].start # inv[i].built[1].end
        /\ IsNanosOf(inv[i].sent[1].url[1].start, inv[i].built[1].start)

----------------------------------------------------------------------------
(* C15: under every interleaving of two invocations, the URL arguments an  *)
(* invocation builds from, the requests it sends and what it returns are   *)
(* those of the same invocation run alone with the same arguments,         *)
(* environment, clock readings and backend answers.                        *)
Outcome(built, sent, ret) == [built |-> built, sent |-> sent, ret |-> ret]

\* one handler call from beginning to end, with nothing else running
RunAlone(h, raw, reads, answers) ==
    LET d == VerifyAndUnmarshal(h, raw)
        req == d.req
        lokiURL == getEnvOrDefault(req.URL, EnvLokiURL, DefaultLokiURL)
        username == getEnvOrDefault(req.Username, EnvLokiUsername, "")
        password == getEnvOrDefault(req.Password, EnvLokiPassword, "")
        token == getEnvOrDefault(req.Token, EnvLokiToken, "")
        orgID == getEnvOrDefault(req.Org, EnvLokiOrgID, "")
        ps == parseTime(req.Start, reads[3])
        pe == parseTime(req.End, reads[IF req.Start # EmptyStr THEN 4 ELSE 3])
        start == IF req.Start # EmptyStr THEN Unix(ps.t)
                 ELSE Unix(reads[1] - HourSecs * TicksPerSec)
        end == IF req.End # EmptyStr THEN Unix(pe.t) ELSE Unix(reads[2])
        limit == IF h # LokiQuery THEN 0
                 ELSE IF req.Limit > 0 THEN IntOf(req.Limit) ELSE DefaultLimit
        format == IF req.Format # "" THEN req.Format ELSE DefaultFormat
        args == BuildArgs([handler |-> h, req |-> req, lokiURL |-> lokiURL,
                           start |-> start, end |-> end, limit |-> limit])
        b == buildURL(h, args)
        request == HTTPRequest(b.url, username, password, token, orgID)
        x == executeLoki(answers[1])
        f == formatLoki(h, x.result, format)
    IN  IF d.err # Nil THEN Outcome(<<>>, <<>>, Failure(d.err))
        ELSE IF req.Start # EmptyStr /\ ps.err # Nil
        THEN Outcome(<<>>, <<>>, Failure(Errorf(InvalidStartTime, ps.err)))
        ELSE IF req.End # EmptyStr /\ pe.err # Nil
        THEN Outcome(<<>>, <<>>, Failure(Errorf(InvalidEndTime, pe.err)))
        ELSE IF b.err # Nil
        THEN Outcome(<<args>>, <<>>, Failure(Errorf(BuildPrefix(h), b.err)))
        ELSE IF x.err # Nil
        THEN Outcome(<<args>>, <<request>>, Failure(Errorf(ExecPrefix(h), x.err)))
        ELSE IF f.err # Nil
        THEN Outcome(<<args>>, <<request>>, Failure(Errorf(FailedToFormat, f.err)))
        ELSE Outcome(<<args>>, <<request>>, Success(f.text))

C15_SameAsAlone ==
    \A i \in Invs :
        LET v == inv[i]
        IN  Done(v) =>
              Outcome(v.built, v.sent, v.ret) = RunAlone(v.handler, v.raw, v.reads, v.answers)

\* both invocations read the clock before and after the same tick, sent
\* different credentials and org ids, and both have returned a result
C15_Witness ==
    /\ \A i \in Invs : Done(inv[i]) /\ IsSuccess(inv[i]) /\ Len(inv[i].sent) = 1
    /\ \A i \in Invs : inv[i].reads[1] < inv[i].reads[2]
    /\ inv[1].reads[1] = inv[2].reads[1]
    /\ inv[1].sent[1].authorization # inv[2].sent[1].authorization
    /\ inv[1].sent[1].scopeOrgID # inv[2].sent[1].scopeOrgID
    /\ inv[1].handler # inv[2].handler

----------------------------------------------------------------------------
(* C20: the server URL of the client's configuration is the value of the   *)
(* --server-url flag when that is non-empty, otherwise the value of        *)
(* MCP_SERVER_URL when that is non-empty, otherwise                        *)
(* http://localhost:8000/mcp, for every combination of the three.          *)
Loaded == client.pc = "loaded"

\* the flag value the command lines of the tests carry
GivesFlag(args, url) ==
    \/ args = << <<"-", "-", "server-url">>, url >>
    \/ args = << <<"-", "-", "server-url", "=">> \o url >>

C20_ServerURLPrecedence ==
    Loaded =>
        LET flagValue == FlagParse(client.args, <<>>)
            envValue == client.environ.MCP_SERVER_URL
        IN  /\ client.cfg.ServerURL =
                  IF flagValue # <<>> THEN flagValue
                  ELSE IF envValue # <<>> THEN envValue
                  ELSE <<"http://localhost:8000/mcp">>
            /\ GivesFlag(client.args, FlagURL) => client.cfg.ServerURL = FlagURL
            /\ client.args = <<>> /\ envValue = EnvURL => client.cfg.ServerURL = EnvURL
            /\ client.args = <<>> /\ envValue = <<>> =>
                   client.cfg.ServerURL = <<"http://localhost:8000/mcp">>

\* both the flag and the environment variable were set, and the flag won
C20_Witness ==
    /\ Loaded
    /\ client.args = << <<"-", "-", "server-url">>, FlagURL >>
    /\ client.environ.MCP_SERVER_URL = EnvURL
    /\ client.cfg.ServerURL = FlagURL

\* the flag came with an empty value, and the environment value was used
C20_WitnessEnv ==
    /\ Loaded
    /\ client.args = << <<"-", "-", "server-url", "=">> >>
    /\ client.environ.MCP_SERVER_URL = EnvURL
    /\ client.cfg.ServerURL = EnvURL

C20_WitnessDefault ==
    /\ Loaded
    /\ client.args = <<>>
    /\ client.environ.MCP_SERVER_URL = <<>>
    /\ client.cfg.ServerURL = DefaultServerURL

----------------------------------------------------------------------------
(* C23: the format is validated only after the backend call: an invocation *)
(* whose format is none of raw, json, text fails for its format only after *)
(* it has resolved its configuration, built its URL and sent exactly one   *)
(* backend request; before that, only an earlier step can have failed it.  *)
C23_FormatCheckedLast ==
    \A i \in Invs :
        LET v == inv[i]
        IN  Unrecognised(v.req.Format) =>
              /\ v.failedAt = "format" =>
                     /\ "ResolveConfig" \in Range(v.trace)
                     /\ Len(v.built) = 1 /\ Len(v.sent) = 1 /\ Len(v.answers) = 1
                     /\ executeLoki(v.answers[1]).err = Nil
                     /\ v.ret.err = <<FailedToFormat, "unsupported format: ", v.req.Format>>
              /\ Done(v) /\ v.sent = <<>> => v.failedAt \in {"decode", "start", "end", "build"}
              /\ Done(v) /\ v.sent # <<>> => v.failedAt \in {"execute", "format"}
              /\ Done(v) /\ v.failedAt \in {"execute", "format"} => Len(v.sent) = 1

\* the format xml has failed a query invocation after its one backend request was answered
C23_Witness ==
    \E i \in Invs :
        /\ inv[i].handler = LokiQuery /\ inv[i].req.Format = "xml"
        /\ Done(inv[i]) /\ inv[i].failedAt = "format"
        /\ Len(inv[i].sent) = 1
        /\ inv[i].answers[1].body = BodyStreams

----------------------------------------------------------------------------
(* C24: in the query handler the limit handed to the URL builder is a      *)
(* positive integer, at least 1, whatever the numeric limit argument is:   *)
(* negative, zero, or a fraction such as 0.5.                              *)
C24_LimitAtLeastOne ==
    \A i \in Invs : \A k \in 1..Len(inv[i].built) :
        inv[i].handler = LokiQuery => inv[i].built[k].limit >= 1

----------------------------------------------------------------------------
\* the end lies more than an hour before the time read for the default start
OlderThanAnHour(v, b) == b.end < Unix(v.reads[1]) - 3600

(* C25: start and end are resolved independently: with only end supplied   *)
(* the start handed to the URL builder is one hour before the time read    *)
(* for the default, whatever the end resolved to, so that an end more than *)
(* an hour old leaves start after end; with only start supplied the end is *)
(* the time read for the default, whatever the start resolved to.          *)
C25_BoundsIndependent ==
    \A i \in Invs : \A k \in 1..Len(inv[i].built) :
        LET v == inv[i]
            b == v.built[k]
        IN  /\ v.req.Start = EmptyStr /\ v.req.End # EmptyStr =>
                   /\ b.start = Unix(v.reads[1] - 3600 * TicksPerSec)
                   /\ b.end = Unix(parseTime(v.req.End, v.reads[3]).t)
                   /\ OlderThanAnHour(v, b) => b.start > b.end
                   /\ v.req.End = Minus2h => OlderThanAnHour(v, b)
            /\ v.req.Start # EmptyStr /\ v.req.End = EmptyStr =>
                   /\ b.end = Unix(v.reads[2])
                   /\ b.start = Unix(parseTime(v.req.Start, v.reads[3]).t)

\* only end was supplied, as "-2h": the request went out with start after end
C25_Witness ==
    \E i \in Invs :
        /\ inv[i].req.Start = EmptyStr /\ inv[i].req.End = Minus2h
        /\ Len(inv[i].sent) = 1
        /\ inv[i].built[1].start > inv[i].built[1].end
        /\ inv[i].built[1].start = Unix(inv[i].reads[1] - 3600 * TicksPerSec)

\* only start was supplied, as a date of 1970: the end is the time read for the default
C25_WitnessOnlyStart ==
    \E i \in Invs :
        /\ inv[i].req.Start = Jan2At2 /\ inv[i].req.End = EmptyStr
        /\ Len(inv[i].built) = 1
        /\ inv[i].built[1].end = Unix(inv[i].reads[2])

----------------------------------------------------------------------------
(* C26: when neither the start nor the end expression can be parsed, the   *)
(* invocation fails with "invalid start time" and the end is never handed  *)
(* to the resolver; "invalid end time" is returned only when the start was *)
(* absent or was parsed.                                                   *)
C26_StartFailureFirst ==
    \A i \in Invs :
        LET v == inv[i]
        IN  /\ Done(v) /\ Unparsable(v.req.Start) /\ Unparsable(v.req.End) =>
                   /\ v.failedAt = "start"
                   /\ Head(v.ret.err) = "invalid start time: "
                   /\ v.parsed = <<v.req.Start>>
                   /\ "ResolveEnd" \notin Range(v.trace)
            /\ v.ret.err # Nil /\ Head(v.ret.err) = "invalid end time: " =>
                   /\ v.failedAt = "end"
                   /\ ~Unparsable(v.req.Start)
                   /\ v.req.Start = EmptyStr \/ v.parsed = <<v.req.Start, v.req.End>>

\* "5m" and "tomorrow": the start failure was returned, the end never parsed
C26_Witness ==
    \E i \in Invs :
        /\ inv[i].req.Start = Plain5m /\ inv[i].req.End = Tomorrow
        /\ Done(inv[i]) /\ inv[i].failedAt = "start"
        /\ inv[i].parsed = <<Plain5m>>

\* "tomorrow" as end failed the invocation after "-5m" had been parsed as start
C26_WitnessEnd ==
    \E i \in Invs :
        /\ inv[i].req.Start = Minus5m /\ inv[i].req.End = Tomorrow
        /\ Done(inv[i]) /\ inv[i].failedAt = "end"
        /\ inv[i].parsed = <<Minus5m, Tomorrow>>

----------------------------------------------------------------------------
(* C21: the request timeout of the client is LOKI_QUERY_TIMEOUT seconds,   *)
(* 30 seconds when the variable is unset, and it bounds the tool call: a   *)
(* client whose server does not answer is not still waiting once the       *)
(* configured timeout has passed.                                          *)
C21_TimeoutApplied ==
    /\ client.pc \notin {"off", "start"} =>
         /\ client.environ.LOKI_QUERY_TIMEOUT = <<>> => client.cfg.Timeout = 30
         /\ client.environ.LOKI_QUERY_TIMEOUT = <<"6", "0">> => client.cfg.Timeout = 60
         /\ client.environ.LOKI_QUERY_TIMEOUT = <<"+", "7">> => client.cfg.Timeout = 7
    /\ client.pc = "calling" => client.waited <= client.cfg.Timeout

----------------------------------------------------------------------------
(* C22: the client run as the README shows for multi-tenant setups, with   *)
(* the query, five empty positional arguments and then tenant-123, issues  *)
(* a loki_query tool call whose org argument is tenant-123.                *)
C22_ReadmeOrgInvocation ==
    client.args = ReadmeOrgArgs /\ client.ran =>
        /\ client.call # Nil
        /\ client.call[1].Name = "loki_query"
        /\ "org" \in DOMAIN client.call[1].Arguments
        /\ client.call[1].Arguments["org"] = <<"tenant-123">>

----------------------------------------------------------------------------
(* C27: the three tools are registered before the MCP goroutine and the    *)
(* HTTP goroutine are started, so that every request accepted on /mcp      *)
(* finds all three registered; when the creation of a tool fails the       *)
(* process ends and has never listened.                                    *)
AllTools == {"loki_query", "loki_label_names", "loki_label_values"}

ToolCreationFailed ==
    server.pc = "fatal" /\ Head(server.fatal) = "Failed to create " /\ Len(server.fatal) = 3

C27_RegisteredBeforeListening ==
    /\ server.mcp # "none" => Range(server.registered) = AllTools
    /\ server.http # "none" => Range(server.registered) = AllTools
    /\ \A k \in 1..Len(server.accepted) : server.accepted[k] = AllTools
    /\ "StartMCPServer" \in Range(server.steps) \/ "StartHTTPServer" \in Range(server.steps) =>
           Len(SelectSeq(server.steps, LAMBDA x : x = "RegisterTool")) = 3
    /\ ToolCreationFailed =>
           /\ server.mcp = "none" /\ server.http = "none" /\ server.accepted = <<>>
           /\ server.fatal[2] \notin Range(server.registered)

\* a request was accepted while the server was listening with the MCP server running
C27_Witness ==
    /\ server.http = "listening" /\ server.mcp = "running"
    /\ Len(server.accepted) = 1
    /\ server.registered = <<"loki_query", "loki_label_names", "loki_label_values">>

\* the creation of the second tool failed
C27_WitnessFailure ==
    /\ ToolCreationFailed
    /\ server.fatal[2] = "loki_label_names"
    /\ server.registered = <<"loki_query">>

----------------------------------------------------------------------------
(* C28: after SIGINT or SIGTERM the server shuts down in a fixed order:    *)
(* the MCP server's Shutdown first, then the HTTP server's Shutdown, which *)
(* is called also when the first returned an error; main then writes       *)
(* "Server stopped" and returns.  No shutdown step is taken before a       *)
(* signal has been received.                                               *)
ShutdownSteps == {"AwaitSignal", "ShutdownMCP", "ShutdownHTTP"}

Times(step) == Len(SelectSeq(server.steps, LAMBDA x : x = step))

MCPShutdownFailed == <<"Error shutting down MCP server: ">> \in Range(server.log)

C28_ShutdownOrder ==
    LET shut == SelectSeq(server.steps, LAMBDA x : x \in ShutdownSteps)
    IN  /\ shut # <<>> => server.signalled
        /\ IsPrefix(shut, <<"AwaitSignal", "ShutdownMCP", "ShutdownHTTP">>)
        /\ ~server.signalled =>
               /\ <<"=== Shutdown signal received ===">> \notin Range(server.log)
               /\ <<"Server stopped">> \notin Range(server.log)
        /\ MCPShutdownFailed => Times("ShutdownMCP") = 1
        /\ Times("ShutdownMCP") = 1 /\ Alive =>
               /\ server.pc = "shutdownHTTP"
               /\ ENABLED ShutdownHTTP
        /\ Times("ShutdownMCP") = 1 /\ ~Alive =>
               \/ /\ server.pc = "exit0"
                  /\ Times("ShutdownHTTP") = 1
                  /\ Last(server.log) = <<"Server stopped">>
               \/ /\ server.pc = "fatal"
                  /\ Head(server.fatal) \in {"MCP server error: ", "HTTP server error: "}
        /\ <<"Server stopped">> \in Range(server.log) =>
               shut = <<"AwaitSignal", "ShutdownMCP", "ShutdownHTTP">> /\ server.pc = "exit0"

\* the MCP server's Shutdown returned an error and main still reached "Server stopped"
C28_Witness ==
    /\ server.pc = "exit0"
    /\ MCPShutdownFailed
    /\ Times("ShutdownHTTP") = 1
    /\ Last(server.log) = <<"Server stopped">>
    /\ server.http = "closed"

\* both Shutdown calls returned without error
C28_WitnessClean ==
    /\ server.pc = "exit0"
    /\ ~MCPShutdownFailed
    /\ server.mcp = "stopped" /\ server.http = "closed"

----------------------------------------------------------------------------
(* C29: the log of the server depends on LOKI_PASSWORD and LOKI_TOKEN only *)
(* through whether each is set: the start-up lines are those of every      *)
(* environment that differs from the actual one in the non-empty value of  *)
(* the password or of the token only, and no line of the log carries the   *)
(* value of either.                                                        *)
Logged == "LogConfiguration" \in Range(server.steps)

\* the environment e with the password and the token, where set, replaced
WithSecrets(e, p, t) ==
    [e EXCEPT ![EnvLokiPassword] = IF @ # "" THEN p ELSE "",
              ![EnvLokiToken] = IF @ # "" THEN t ELSE ""]

\* the lines written before the transport is created
StartupLines == SubSeq(server.log, 1, 10)

C29_SecretsNotLogged ==
    Logged =>
        /\ \A p \in SecretValues : \A t \in SecretValues :
               StartupLines = BannerLog(server.osenv) \o ConfigLog(WithSecrets(env, p, t))
        /\ \A k \in 1..Len(server.log) : \A j \in 1..Len(server.log[k]) :
               server.log[k][j] \notin {env[EnvLokiPassword], env[EnvLokiToken]} \ {""}
        /\ env[EnvLokiPassword] # "" => server.log[9] = <<"  - LOKI_PASSWORD: ****** (set)">>
        /\ env[EnvLokiPassword] = "" => server.log[9] = <<"  - LOKI_PASSWORD: not set">>
        /\ env[EnvLokiToken] # "" => server.log[10] = <<"  - LOKI_TOKEN: ****** (set)">>
        /\ env[EnvLokiToken] = "" => server.log[10] = <<"  - LOKI_TOKEN: not set">>

\* a server with both secrets set, to different values, has come to listen
C29_Witness ==
    /\ Logged
    /\ env[EnvLokiPassword] = "hunter2" /\ env[EnvLokiToken] = "s3cr3t"
    /\ env[EnvLokiUsername] # ""
    /\ server.http = "listening"
    /\ Len(server.log) > 10

\* the password is set and the token is not
C29_WitnessUnsetToken ==
    /\ Logged
    /\ env[EnvLokiPassword] = "s3cr3t" /\ env[EnvLokiToken] = ""
    /\ server.log[10] = <<"  - LOKI_TOKEN: not set">>

====
